---- MODULE Spec2Model ----
(***************************************************************************)
(* Quote calculation engine of the shipment quote calculator:             *)
(*   geocodeLocation       backend/src/services/geocoding.js              *)
(*   calculateDistance     backend/src/services/quoteCalculator.js        *)
(*   calculateQuoteAmount  backend/src/services/quoteCalculator.js        *)
(* Each function is a state machine of its own (SpecGeo, SpecDist,        *)
(* SpecPrice); an await is a step boundary, the synchronous code between   *)
(* two awaits is one step.                                                 *)
(***************************************************************************)
EXTENDS Integers, Sequences, FiniteSets, TLC

VARIABLES
  geoLoc,      \* argument of geocodeLocation: [city, postal_code, state_province, country]
  provider,    \* Nominatim as a function of the query text: query -> answer
  geoPc,       \* position in geocodeLocation
  geoCalls,    \* the queries sent with axios.get, in order
  geoResult,   \* what the returned promise settles to
  distArgs,    \* arguments of calculateDistance: [origin, dest], each [lat, lon]
  distPc,      \* position in calculateDistance
  routeCalls,  \* number of axios.get calls sent to the routing provider
  elapsed,     \* milliseconds since the routing call was sent
  routeReply,  \* how the routing call settled
  gcCalls,     \* number of great-circle queries sent to the database
  gcReply,     \* how the great-circle query settled
  distLog,     \* console output of calculateDistance and its helpers
  distResult,  \* what the promise of calculateDistance settles to
  priceArgs,   \* arguments of calculateQuoteAmount
  env,         \* process.env: BASE_RATE_PER_MILE, MINIMUM_QUOTE
  pricePc,     \* position in calculateQuoteAmount
  quoteAmount, \* the local quoteAmount after each statement that assigns it
  priceResult, \* the returned amount
  priceHistory,\* the calls of calculateQuoteAmount so far: [args, env, amount]
  cqReq,       \* createQuote: req.body of each execution
  cqPc,        \* createQuote: position of each execution
  cqFrame,     \* createQuote: the locals originCoords, destCoords, distance, quoteAmount
  cqAnswers,   \* what the providers and the database answered to each execution's calls
  cqTrace,     \* the calls each execution has made, in order
  cqResponses, \* the res.status(..).json(..) calls of each execution, in order
  quotesTable, \* the rows of the quotes table
  listQuery,   \* getAllQuotes: req.query, the texts of page and limit
  listPc,      \* getAllQuotes: position
  listFrame,   \* getAllQuotes: the locals page, limit, offset, total
  listResponses, \* getAllQuotes: the res.json(..) calls and errorHandler answers, in order
  isLoading,   \* Home: state isLoading
  error,       \* Home: state error
  currentQuote,\* Home: state currentQuote
  activeTab,   \* Home: state activeTab
  isFromHistory, \* Home: state isFromHistory
  apiCalls,    \* Home: the quoteAPI calls of the handlers, in the order they started
  mapProps,    \* RouteMap: the props of the last render, or unmounted
  mapRef,      \* RouteMap: mapRef.current, the index of a map in leafletMaps or 0
  routeLineRef,\* RouteMap: routeLineRef.current, a layer or none
  leafletMaps, \* RouteMap: every L.map created so far: [run, pair, removed, layers]
  fetchRoutes, \* RouteMap: the fetchRoute call of each effect run: [pair, state]
  isLoadingRoute \* RouteMap: state isLoadingRoute

geoVars == <<geoLoc, provider, geoPc, geoCalls, geoResult>>
distVars ==
  <<distArgs, distPc, routeCalls, elapsed, routeReply, gcCalls, gcReply, distLog, distResult>>
priceVars == <<priceArgs, env, pricePc, quoteAmount, priceResult, priceHistory>>
createVars == <<cqReq, cqPc, cqFrame, cqAnswers, cqTrace, cqResponses, quotesTable>>

listVars == <<listQuery, listPc, listFrame, listResponses>>
homeVars == <<isLoading, error, currentQuote, activeTab, isFromHistory, apiCalls>>
mapVars == <<mapProps, mapRef, routeLineRef, leafletMaps, fetchRoutes, isLoadingRoute>>
webVars == <<listVars, homeVars, mapVars>>

vars == <<geoVars, distVars, priceVars, createVars, webVars>>

----------------------------------------------------------------------------
(* JavaScript values *)

\* A falsy string argument (undefined, null, ''): `if (postalCode)` is false.
Absent == ""

\* A JS number: NaN or a finite value.  Coordinates are in tenths of a degree.
NaN == [nan |-> TRUE, v |-> 0]
Num(n) == [nan |-> FALSE, v |-> n]

\* Every comparison with NaN is false.
Geq(a, b) == ~a.nan /\ ~b.nan /\ a.v >= b.v
Leq(a, b) == ~a.nan /\ ~b.nan /\ a.v <= b.v

\* A string the provider sends for lat/lon: numeric text, or text that does
\* not start with a number.
RawNum(n) == [digits |-> TRUE, v |-> n]
RawJunk == [digits |-> FALSE, v |-> 0]

\* parseFloat: the leading number, NaN when there is none.
parseFloat(raw) == IF raw.digits THEN Num(raw.v) ELSE NaN

NumText(x) == IF x.nan THEN "NaN" ELSE ToString(x.v)

----------------------------------------------------------------------------
(* geocoding.js *)

countryNames(country) ==
  CASE country = "US" -> "United States"
    [] country = "CA" -> "Canada"
    [] country = "MX" -> "Mexico"
    [] OTHER -> country

\* The query is kept as the list of its parts; join(', ') is left out.
buildGeocodingQuery(city, stateProvince, postalCode, country) ==
     (IF postalCode # Absent THEN <<postalCode>> ELSE <<>>)
  \o (IF city # Absent THEN <<city>> ELSE <<>>)
  \o (IF stateProvince # Absent THEN <<stateProvince>> ELSE <<>>)
  \o (IF country # Absent THEN <<countryNames(country)>> ELSE <<>>)

minLat == 70
maxLat == 830
minLon == -1800
maxLon == -500

validateNorthAmericaBoundsExclusive(lat, lon) ==
  /\ ~lat.nan /\ ~lon.nan
  /\ lat.v > minLat /\ lat.v < maxLat /\ lon.v > minLon /\ lon.v < maxLon

validateNorthAmericaBounds(lat, lon) ==
  /\ Geq(lat, Num(minLat)) /\ Leq(lat, Num(maxLat))
  /\ Geq(lon, Num(minLon)) /\ Leq(lon, Num(maxLon))

\* line 70
Query(loc) ==
  buildGeocodingQuery(loc.city, loc.state_province, loc.postal_code, loc.country)

FallbackQueryKeepsPostal(loc) ==
  buildGeocodingQuery(loc.city, loc.state_province, loc.postal_code, loc.country)

\* line 91
FallbackQuery(loc) ==
  buildGeocodingQuery(loc.city, loc.state_province, Absent, loc.country)

\* Error messages are lists of text parts.
MsgRequired == <<"City and country are required for geocoding">>
MsgOutside ==
  "Location is outside North America bounds. Only US, Canada, and Mexico are supported. Coordinates: "
MsgNotFound == "Could not geocode location: "
MsgFailed == "Geocoding failed: "
MsgApi == "Geocoding API error: "
MsgNetwork == "Network Error"

IncludesNorthAmericaNever(msg) == FALSE

\* error.message.includes('North America')
IncludesNorthAmerica(msg) == \E i \in 1..Len(msg) : msg[i] = MsgOutside

Thrown(msg) == [ok |-> FALSE, message |-> msg]

\* What axios.get does with a provider answer: it rejects on an HTTP error
\* status and on a network error or timeout, and resolves otherwise.
Rejects(answer) == answer.kind \in {"http_error", "network_error"}

\* line 137
Accuracy(loc) ==
  IF loc.postal_code # Absent THEN "postal_code"
  ELSE IF loc.state_province # Absent THEN "city_state" ELSE "city_only"

\* Lines 119-153: what geocodeLocation settles to once `response` is known
\* (answer resolved), or once the last axios.get has rejected.
Settle(loc, answer) ==
  LET latitude == parseFloat(answer.lat)
      longitude == parseFloat(answer.lon)
      \* the error thrown inside the outer try, before the catch rewrites it
      inner ==
        IF answer.kind = "http_error" THEN [response |-> TRUE, message |-> <<"Request failed">>]
        ELSE IF answer.kind = "network_error" THEN [response |-> FALSE, message |-> <<MsgNetwork>>]
        ELSE IF answer.kind = "empty"
          THEN [response |-> FALSE, message |-> <<MsgNotFound>> \o Query(loc)]
        ELSE [response |-> FALSE,
              message |-> <<MsgOutside, NumText(latitude), NumText(longitude)>>]
      throws ==
        \/ answer.kind # "match"
        \/ ~validateNorthAmericaBounds(latitude, longitude)
  IN IF throws
       THEN IF inner.response THEN Thrown(<<MsgApi, answer.status>>)
            ELSE IF IncludesNorthAmerica(inner.message) THEN Thrown(inner.message)
            ELSE Thrown(<<MsgFailed>> \o inner.message)
       ELSE [ok |-> TRUE,
             latitude |-> latitude,
             longitude |-> longitude,
             accuracy |-> Accuracy(loc),
             display_name |-> answer.display_name]

MissingRequiredCityOnly(loc) == loc.city = Absent

\* line 65: !city || !country
MissingRequired(loc) == loc.city = Absent \/ loc.country = Absent

\* Lines 62-117 up to the first await.
GeoStart ==
  /\ geoPc = "start"
  /\ IF MissingRequired(geoLoc)
       THEN /\ geoResult' = Thrown(MsgRequired)
            /\ geoPc' = "done"
            /\ UNCHANGED geoCalls
       ELSE /\ geoCalls' = Append(geoCalls, Query(geoLoc))
            /\ geoPc' = IF geoLoc.postal_code # Absent THEN "await_postal" ELSE "await_plain"
            /\ UNCHANGED geoResult
  /\ UNCHANGED <<geoLoc, provider, distVars, priceVars, createVars, webVars>>

\* Lines 77-103: the axios.get of the postal-code branch settles.
GeoPostalReply ==
  /\ geoPc = "await_postal"
  /\ LET answer == provider[geoCalls[1]]
     IN IF Rejects(answer)
          THEN /\ geoCalls' = Append(geoCalls, FallbackQuery(geoLoc))
               /\ geoPc' = "await_retry"
               /\ UNCHANGED geoResult
          ELSE /\ geoResult' = Settle(geoLoc, answer)
               /\ geoPc' = "done"
               /\ UNCHANGED geoCalls
  /\ UNCHANGED <<geoLoc, provider, distVars, priceVars, createVars, webVars>>

\* Lines 92-102: the axios.get of the inner catch settles.
GeoRetryReply ==
  /\ geoPc = "await_retry"
  /\ geoResult' = Settle(geoLoc, provider[geoCalls[2]])
  /\ geoPc' = "done"
  /\ UNCHANGED <<geoLoc, provider, geoCalls, distVars, priceVars, createVars, webVars>>

\* Lines 106-116: the axios.get of the no-postal-code branch settles.
GeoPlainReply ==
  /\ geoPc = "await_plain"
  /\ geoResult' = Settle(geoLoc, provider[geoCalls[1]])
  /\ geoPc' = "done"
  /\ UNCHANGED <<geoLoc, provider, geoCalls, distVars, priceVars, createVars, webVars>>

----------------------------------------------------------------------------
(* quoteCalculator.js: calculateDistance and its helpers *)

\* Units: meters are whole meters; distance_km is in 10^-6 km; distance_miles
\* is in 10^-9 mile, so that km * 0.621371 is a whole number of units.
MilesPerKm == 621371

\* timeout: 5000
timeout == 5000

TimedOutNever == FALSE

\* axios aborts the request (ECONNABORTED) once the timeout has elapsed.
TimedOut == elapsed >= timeout

\* Number.prototype.toFixed(2) of num/den (den a multiple of 200), in hundredths.
toFixed2(num, den) == (num + den \div 200) \div (den \div 100)

\* Lines 117: response.data && response.data.routes && routes.length > 0
HasRoute(answer) == answer.kind = "routes"

DrivingValueTruncates(distanceMeters) ==
  IF distanceMeters.nan
    THEN [distance_km |-> NaN, distance_miles |-> NaN]
    ELSE [distance_km |-> Num((distanceMeters.v \div 10) * 10000),
          distance_miles |-> Num(((distanceMeters.v * MilesPerKm) \div 10000000) * 10000000)]

\* Lines 119-126.  routes[0].distance that is no number gives NaN / 1000,
\* NaN.toFixed(2) = "NaN" and parseFloat("NaN") = NaN.
DrivingValue(distanceMeters) ==
  IF distanceMeters.nan
    THEN [distance_km |-> NaN, distance_miles |-> NaN]
    ELSE [distance_km |-> Num(toFixed2(distanceMeters.v, 1000) * 10000),
          distance_miles |->
            Num(toFixed2(distanceMeters.v * MilesPerKm, 1000000000) * 10000000)]

\* Lines 169-172: the row the SELECT computes from ST_Distance (meters).
GreatCircleValue(row) ==
  [distance_km |-> parseFloat(row.distance_km),
   distance_miles |-> parseFloat(row.distance_miles)]

\* Lines 153-161: ST_Distance / 1000.0 and (ST_Distance / 1000.0) * 0.621371
GreatCircleRow(stDistance) ==
  [distance_km |-> RawNum(stDistance * 1000),
   distance_miles |-> RawNum(stDistance * MilesPerKm)]

LogOsrmHttp == "OSRM API error: status"
LogOsrmTimeout == "OSRM API timeout, falling back to great-circle distance"
LogOsrmOther == "OSRM API error: message"
LogFallingBack == "Falling back to great-circle distance calculation"
LogUsingDrivingSwapped == "Using great-circle distance"
LogUsingDriving == "Using driving distance"
LogUsingGreatCircle == "Using great-circle distance"
LogPostgis == "PostGIS distance calculation error:"
MsgDistanceFailed == "Failed to calculate distance: "
MsgNoRows == "Distance calculation failed"
MsgDb == "database error"

\* Lines 130-137: the warning calculateDrivingDistance logs before it rethrows.
OsrmWarning(answer) ==
  IF answer.kind = "http_error" THEN LogOsrmHttp
  ELSE IF answer.kind = "timeout" THEN LogOsrmTimeout
  ELSE LogOsrmOther

DistFallbackRethrows(answer) ==
  /\ distLog' = distLog \o <<OsrmWarning(answer)>>
  /\ distResult' = Thrown(<<MsgDistanceFailed, answer.kind>>)
  /\ distPc' = "done"
  /\ UNCHANGED <<gcCalls, gcReply>>

\* Lines 138 and 194-197: the routing error is rethrown, caught by
\* calculateDistance, and the great-circle query is sent.
DistFallback(answer) ==
  /\ distLog' = distLog \o <<OsrmWarning(answer), LogFallingBack>>
  /\ gcCalls' = gcCalls + 1
  /\ distPc' = "await_gc"
  /\ UNCHANGED <<gcReply, distResult>>

\* Lines 188-191 and 102-115: the routing request is sent.
DistStart ==
  /\ distPc = "start"
  /\ routeCalls' = routeCalls + 1
  /\ elapsed' = 0
  /\ distPc' = "await_route"
  /\ UNCHANGED <<distArgs, routeReply, gcCalls, gcReply, distLog, distResult>>
  /\ UNCHANGED <<geoVars, priceVars, createVars, webVars>>

TickMs == 1000

\* Time passes while the routing request is pending.
RouteTick ==
  /\ distPc = "await_route"
  /\ ~TimedOut
  /\ elapsed' = elapsed + TickMs
  /\ UNCHANGED <<distArgs, distPc, routeCalls, routeReply, gcCalls, gcReply, distLog, distResult>>
  /\ UNCHANGED <<geoVars, priceVars, createVars, webVars>>

RouteMeters == {0, 8, 1000, 1609, 2500}

\* routes[0].distance as the code reads it: a number of meters, or no number
\* (the field is missing).  The code does not check its sign.
RouteDistances == {Num(m) : m \in RouteMeters} \cup {Num(-1000), NaN}

RouteAnswers ==
  {[kind |-> "routes", meters |-> m] : m \in RouteDistances}
  \cup {[kind |-> k, meters |-> NaN] : k \in {"no_routes", "http_error", "network_error"}}

\* Lines 109-139 and 191-199: the routing request settles before the timeout.
RouteReply ==
  /\ distPc = "await_route"
  /\ ~TimedOut
  /\ \E answer \in RouteAnswers :
       /\ routeReply' = answer
       /\ IF HasRoute(answer)
            THEN /\ distResult' = [ok |-> TRUE, value |-> DrivingValue(answer.meters)]
                 /\ distLog' = Append(distLog, LogUsingDriving)
                 /\ distPc' = "done"
                 /\ UNCHANGED <<gcCalls, gcReply>>
            ELSE DistFallback(answer)
  /\ UNCHANGED <<distArgs, routeCalls, elapsed>>
  /\ UNCHANGED <<geoVars, priceVars, createVars, webVars>>

\* Lines 114 and 133-138: no answer within the timeout.
RouteTimeout ==
  /\ distPc = "await_route"
  /\ TimedOut
  /\ routeReply' = [kind |-> "timeout", meters |-> NaN]
  /\ DistFallback([kind |-> "timeout", meters |-> NaN])
  /\ UNCHANGED <<distArgs, routeCalls, elapsed>>
  /\ UNCHANGED <<geoVars, priceVars, createVars, webVars>>

\* ST_Distance of PostGIS is outside the repository: 0 for identical points,
\* a positive number of meters otherwise.
GcMeters == {3, 1000, 2500}
StDistances(args) == IF args.origin = args.dest THEN {0} ELSE GcMeters

GcAnswers(args) ==
  {[kind |-> "row", row |-> GreatCircleRow(g)] : g \in StDistances(args)}
  \cup {[kind |-> k, row |-> GreatCircleRow(0)] : k \in {"no_rows", "error"}}

\* Lines 150-177 and 197-199: the database query settles.
GcReply ==
  /\ distPc = "await_gc"
  /\ \E answer \in GcAnswers(distArgs) :
       /\ gcReply' = answer
       /\ IF answer.kind = "row"
            THEN /\ distResult' = [ok |-> TRUE, value |-> GreatCircleValue(answer.row)]
                 /\ distLog' = Append(distLog, LogUsingGreatCircle)
            ELSE /\ distResult' =
                      Thrown(<<MsgDistanceFailed, IF answer.kind = "no_rows" THEN MsgNoRows ELSE MsgDb>>)
                 /\ distLog' = Append(distLog, LogPostgis)
  /\ distPc' = "done"
  /\ UNCHANGED <<distArgs, routeCalls, elapsed, routeReply, gcCalls>>
  /\ UNCHANGED <<geoVars, priceVars, createVars, webVars>>

----------------------------------------------------------------------------
(* quoteCalculator.js: calculateQuoteAmount *)

\* Units: distanceMiles in 1/100 mile, rates and the minimum in cents,
\* multipliers in 1/100, the running quoteAmount in 10^-6 dollar, the returned
\* amount in cents.  Arithmetic is exact decimal arithmetic; the rounding
\* error of IEEE doubles is not modelled.
baseRateDefault == 200
minimumQuoteDefault == 10000
WEIGHT_THRESHOLD == 10000
WEIGHT_FACTOR_RATE == 10

OrDefaultNaNOnly(x, d) == IF x.nan THEN d ELSE x.v

\* a || b on numbers: NaN and 0 are falsy.
OrDefault(x, d) == IF x.nan \/ x.v = 0 THEN d ELSE x.v

\* parseFloat(process.env.BASE_RATE_PER_MILE) || 2.00
baseRatePerMile(e) == OrDefault(parseFloat(e.BASE_RATE_PER_MILE), baseRateDefault)

\* parseFloat(process.env.MINIMUM_QUOTE) || 100.00
minimumQuote(e) == OrDefault(parseFloat(e.MINIMUM_QUOTE), minimumQuoteDefault)

equipmentMultipliersNoDiscount(equipmentType) ==
  CASE equipmentType = "dry_van" -> 100
    [] equipmentType = "reefer" -> 120
    [] equipmentType = "flatbed" -> 115
    [] equipmentType = "step_deck" -> 120
    [] OTHER -> 100

\* equipmentMultipliers[equipmentType] || 1.0
equipmentMultipliers(equipmentType) ==
  CASE equipmentType = "dry_van" -> 100
    [] equipmentType = "reefer" -> 120
    [] equipmentType = "flatbed" -> 115
    [] equipmentType = "step_deck" -> 120
    [] equipmentType = "hotshot" -> 85
    [] equipmentType = "straight_truck" -> 95
    [] OTHER -> 100

\* Math.ceil(x / 100) and Math.floor(x / 100)
CeilHundred(x) == -((-x) \div 100)
FloorHundred(x) == x \div 100

Max(a, b) == IF a >= b THEN a ELSE b

\* Math.round(x * 100) / 100, from 10^-6 dollar to cents (half rounds up).
RoundToCents(x) == (x + 5000) \div 10000

\* The default of the parameter: totalWeight = 0 when the argument is undefined.
TotalWeight(args) == IF args.totalWeight.given THEN args.totalWeight.v ELSE 0

weightFactorFloor(totalWeight) ==
  IF totalWeight > WEIGHT_THRESHOLD
    THEN FloorHundred(totalWeight - WEIGHT_THRESHOLD) * WEIGHT_FACTOR_RATE * 10000
    ELSE 0

weightFactorRebate(totalWeight) ==
  IF totalWeight > WEIGHT_THRESHOLD
    THEN -(CeilHundred(totalWeight - WEIGHT_THRESHOLD) * WEIGHT_FACTOR_RATE * 10000)
    ELSE 0

\* Lines 239-243: what is added to quoteAmount, 0 when the branch is not taken.
weightFactor(totalWeight) ==
  IF totalWeight > WEIGHT_THRESHOLD
    THEN CeilHundred(totalWeight - WEIGHT_THRESHOLD) * WEIGHT_FACTOR_RATE * 10000
    ELSE 0

QuoteStepsFloorFirst(args, e) ==
  LET base == args.distanceMiles * baseRatePerMile(e) * 100
      floored == Max(base, minimumQuote(e) * 10000)
      afterEquipment == (floored \div 100) * equipmentMultipliers(args.equipmentType)
      afterWeight == afterEquipment + weightFactor(TotalWeight(args))
  IN [base |-> base, afterEquipment |-> afterEquipment,
      afterWeight |-> afterWeight, afterFloor |-> afterWeight]

QuoteStepsRunningTotal(args, e) ==
  LET base == args.distanceMiles * baseRatePerMile(e) * 100
      afterEquipment == (base \div 100) * equipmentMultipliers(args.equipmentType)
      afterWeight == afterEquipment + weightFactor(TotalWeight(args))
      afterFloor == Max(afterWeight, minimumQuote(e) * 10000) + Len(priceHistory) * 10000
  IN [base |-> base, afterEquipment |-> afterEquipment,
      afterWeight |-> afterWeight, afterFloor |-> afterFloor]

\* Lines 231-246: the values quoteAmount takes.
QuoteSteps(args, e) ==
  LET base == args.distanceMiles * baseRatePerMile(e) * 100
      afterEquipment == (base \div 100) * equipmentMultipliers(args.equipmentType)
      afterWeight == afterEquipment + weightFactor(TotalWeight(args))
      afterFloor == Max(afterWeight, minimumQuote(e) * 10000)
  IN [base |-> base, afterEquipment |-> afterEquipment,
      afterWeight |-> afterWeight, afterFloor |-> afterFloor]

\* Lines 210-250.
calculateQuoteAmount ==
  /\ pricePc = "start"
  /\ quoteAmount' = QuoteSteps(priceArgs, env)
  /\ priceResult' = Num(RoundToCents(quoteAmount'.afterFloor))
  /\ priceHistory' =
       Append(priceHistory, [args |-> priceArgs, env |-> env, amount |-> priceResult'])
  /\ pricePc' = "done"
  /\ UNCHANGED <<priceArgs, env>>
  /\ UNCHANGED <<geoVars, distVars, createVars, webVars>>

----------------------------------------------------------------------------
(* quoteController.js: createQuote, and middleware/errorHandler.js *)

\* geocodeLocation as a function of what the provider answers to its first
\* call and to its retry (geocoding.js lines 62-153).
geocodeOutcome(loc, first, retry) ==
  IF MissingRequired(loc) THEN Thrown(MsgRequired)
  ELSE IF loc.postal_code # Absent /\ Rejects(first) THEN Settle(loc, retry)
  ELSE Settle(loc, first)

\* The answers geocodeLocation has received when it settles.
GeoConsulted(loc, first, retry) ==
  IF MissingRequired(loc) THEN <<>>
  ELSE IF loc.postal_code # Absent /\ Rejects(first) THEN <<first, retry>>
  ELSE <<first>>

\* calculateDistance as a function of what the routing provider and the
\* database answer (quoteCalculator.js lines 186-200).
distanceOutcome(route, gc) ==
  IF HasRoute(route) THEN [ok |-> TRUE, value |-> DrivingValue(route.meters)]
  ELSE IF gc.kind = "row" THEN [ok |-> TRUE, value |-> GreatCircleValue(gc.row)]
  ELSE Thrown(<<MsgDistanceFailed, IF gc.kind = "no_rows" THEN MsgNoRows ELSE MsgDb>>)

DistConsulted(route, gc) == IF HasRoute(route) THEN <<route>> ELSE <<route, gc>>

\* calculateQuoteAmount(distance.distance_miles, equipment_type, total_weight):
\* distanceMiles arrives in 10^-9 mile.  The whole hundredths of a mile go
\* through QuoteSteps; the rest adds floor(rest * rate * multiplier / 10^7)
\* units of 10^-6 dollar, and what is left below one unit cannot change the
\* rounding to cents.
QuoteAmountFor(distanceMiles, equipmentType, totalWeight, e) ==
  IF distanceMiles.nan THEN NaN
  ELSE
    LET hundredths == distanceMiles.v \div 10000000
        rest == distanceMiles.v % 10000000
        steps == QuoteSteps([distanceMiles |-> hundredths,
                             equipmentType |-> equipmentType,
                             totalWeight |-> totalWeight], e)
        rk == baseRatePerMile(e) * equipmentMultipliers(equipmentType)
        restAmount == ((rest \div 10000) * rk + ((rest % 10000) * rk) \div 10000) \div 1000
        afterWeight == steps.afterWeight + restAmount
    IN Num(RoundToCents(Max(afterWeight, minimumQuote(e) * 10000)))


\* The executions of createQuote that are in progress at the same time.
Executions == {"x", "y"}

FrameShared(r) == "x"

\* Lines 8-16, 19, 31, 43, 60: every call of the async function has its own
\* req, res and locals.
Frame(r) == r

GeocodeFailedNever(result) == FALSE

\* Lines 20-28 and 32-40: the catch around each geocodeLocation call.
GeocodeFailed(result) == ~result.ok

NoData ==
  [quote |-> <<>>, geocoding_accuracy |-> [origin |-> Absent, destination |-> Absent]]

GeocodeErrorBodyOrigin(side, message) ==
  [status |-> 400, success |-> FALSE, error |-> "Geocoding error",
   message |-> <<"Failed to geocode ", "origin", " location: ">> \o message,
   data |-> NoData]

\* Lines 23-27 and 35-39.
GeocodeErrorBody(side, message) ==
  [status |-> 400, success |-> FALSE, error |-> "Geocoding error",
   message |-> <<"Failed to geocode ", side, " location: ">> \o message,
   data |-> NoData]

\* Lines 52-56.
DistanceErrorBody(message) ==
  [status |-> 500, success |-> FALSE, error |-> "Distance calculation error",
   message |-> message, data |-> NoData]

\* Lines 108-124.
CreatedBody(quote, originCoords, destCoords) ==
  [status |-> 201, success |-> TRUE, error |-> Absent,
   message |-> <<"Quote created successfully">>,
   data |-> [quote |-> quote,
             geocoding_accuracy |-> [origin |-> originCoords.accuracy,
                                     destination |-> destCoords.accuracy]]]

\* errorHandler.js lines 5-68, reached through next(error).
errorHandler(err, e) ==
  LET body(status, title, message) ==
        [status |-> status, success |-> FALSE, error |-> title,
         message |-> message, data |-> NoData]
  IN CASE err.code = "23505" ->
            body(409, "Duplicate entry", <<"A record with this information already exists">>)
       [] err.code = "23503" ->
            body(400, "Invalid reference", <<"Referenced record does not exist">>)
       [] err.code = "23502" -> body(400, "Missing required field", err.message)
       [] OTHER ->
            body(500, "Internal server error",
                 IF e.NODE_ENV = "development" THEN err.message
                 ELSE <<"Something went wrong">>)

\* A DECIMAL(10, 2) column keeps two decimals, rounding half away from zero;
\* NaN is a value of the type.  unit is one hundredth in the units of x.
Decimal2(x, unit) ==
  IF x.nan THEN NaN
  ELSE IF x.v >= 0 THEN Num(((x.v + unit \div 2) \div unit) * unit)
  ELSE Num(-((((-x.v) + unit \div 2) \div unit) * unit))

RespondTwice(sent, body) == sent \o <<body, body>>

\* res.status(..).json(..): one response is written.
Respond(sent, body) == Append(sent, body)

InsertParamsSwapped(body, originCoords, destCoords, distance, amount) ==
  [origin |-> body.origin,
   origin_coordinates |-> [lat |-> originCoords.latitude, lon |-> originCoords.longitude],
   destination |-> body.destination,
   destination_coordinates |-> [lat |-> destCoords.latitude, lon |-> destCoords.longitude],
   equipment_type |-> body.equipment_type,
   total_weight |-> body.total_weight,
   distance_miles |-> distance.distance_km,
   distance_kilometers |-> distance.distance_miles,
   quote_amount |-> amount]

\* Lines 67-102: the parameters of the INSERT.
InsertParams(body, originCoords, destCoords, distance, amount) ==
  [origin |-> body.origin,
   origin_coordinates |-> [lat |-> originCoords.latitude, lon |-> originCoords.longitude],
   destination |-> body.destination,
   destination_coordinates |-> [lat |-> destCoords.latitude, lon |-> destCoords.longitude],
   equipment_type |-> body.equipment_type,
   total_weight |-> body.total_weight,
   distance_miles |-> distance.distance_miles,
   distance_kilometers |-> distance.distance_km,
   quote_amount |-> amount]

\* 01_schema.sql: the row the INSERT stores and RETURNING * gives back.
StoredRow(id, params) ==
  [id |-> id,
   origin |-> params.origin,
   origin_coordinates |-> params.origin_coordinates,
   destination |-> params.destination,
   destination_coordinates |-> params.destination_coordinates,
   equipment_type |-> params.equipment_type,
   total_weight |-> params.total_weight,
   distance_miles |-> Decimal2(params.distance_miles, 10000000),
   distance_kilometers |-> Decimal2(params.distance_kilometers, 10000),
   quote_amount |-> params.quote_amount]


----------------------------------------------------------------------------
(* Inputs and specifications *)

Cities == {"Toronto", Absent}
PostalCodes == {"M5H 2N2", Absent}
States == {"ON", Absent}
Countries == {"CA", "MX", "FR", Absent}

Locations ==
  [city : Cities, postal_code : PostalCodes, state_province : States, country : Countries]

\* Tenths of a degree on both sides of each edge of the box, and junk.
RawLats == {RawNum(69), RawNum(70), RawNum(830), RawNum(831), RawJunk}
RawLons == {RawNum(-1801), RawNum(-1800), RawNum(-500), RawNum(-499), RawJunk}

Answers ==
  {[kind |-> "match", lat |-> la, lon |-> lo, display_name |-> "place", status |-> "200"] :
      la \in RawLats, lo \in RawLons}
  \cup {[kind |-> "empty", lat |-> RawJunk, lon |-> RawJunk, display_name |-> "", status |-> "200"]}
  \cup {[kind |-> "http_error", lat |-> RawJunk, lon |-> RawJunk, display_name |-> "", status |-> "503"]}
  \cup {[kind |-> "network_error", lat |-> RawJunk, lon |-> RawJunk, display_name |-> "", status |-> ""]}

NoResult == [ok |-> FALSE, message |-> <<>>]

GeoFresh ==
  /\ geoPc = "start"
  /\ geoCalls = <<>>
  /\ geoResult = NoResult

GeoIdle ==
  /\ geoLoc = [city |-> Absent, postal_code |-> Absent, state_province |-> Absent, country |-> Absent]
  /\ provider = <<>>
  /\ geoPc = "idle"
  /\ geoCalls = <<>>
  /\ geoResult = NoResult

Points == {[lat |-> Num(437), lon |-> Num(-794)], [lat |-> Num(493), lon |-> Num(-1231)]}

NoReply == [kind |-> "none"]

DistFresh ==
  /\ routeCalls = 0
  /\ elapsed = 0
  /\ routeReply = NoReply
  /\ gcCalls = 0
  /\ gcReply = NoReply
  /\ distLog = <<>>
  /\ distResult = NoResult

DistIdle ==
  /\ distArgs = [origin |-> [lat |-> NaN, lon |-> NaN], dest |-> [lat |-> NaN, lon |-> NaN]]
  /\ distPc = "idle"
  /\ DistFresh

PriceIdle ==
  /\ priceArgs = <<>>
  /\ env = <<>>
  /\ pricePc = "idle"
  /\ quoteAmount = <<>>
  /\ priceResult = NaN
  /\ priceHistory = <<>>

CreateIdle ==
  /\ cqReq = <<>>
  /\ cqPc = <<>>
  /\ cqFrame = <<>>
  /\ cqAnswers = <<>>
  /\ cqTrace = <<>>
  /\ cqResponses = <<>>
  /\ quotesTable = <<>>

ListIdle ==
  /\ listQuery = <<>>
  /\ listPc = "idle"
  /\ listFrame = <<>>
  /\ listResponses = <<>>

HomeIdle ==
  /\ isLoading = FALSE
  /\ error = <<>>
  /\ currentQuote = <<>>
  /\ activeTab = "quote"
  /\ isFromHistory = FALSE
  /\ apiCalls = <<>>

MapIdle ==
  /\ mapProps = <<>>
  /\ mapRef = 0
  /\ routeLineRef = <<>>
  /\ leafletMaps = <<>>
  /\ fetchRoutes = <<>>
  /\ isLoadingRoute = TRUE

WebIdle == ListIdle /\ HomeIdle /\ MapIdle

GeoInit ==
  /\ geoLoc \in Locations
  /\ provider \in [{Query(geoLoc), FallbackQuery(geoLoc)} -> Answers]
  /\ GeoFresh
  /\ DistIdle
  /\ PriceIdle
  /\ CreateIdle
  /\ WebIdle

GeoNext == GeoStart \/ GeoPostalReply \/ GeoRetryReply \/ GeoPlainReply

SpecGeo == GeoInit /\ [][GeoNext]_vars

DistInit ==
  /\ distArgs \in [origin : Points, dest : Points]
  /\ distPc = "start"
  /\ DistFresh
  /\ GeoIdle
  /\ PriceIdle
  /\ CreateIdle
  /\ WebIdle

DistNext == DistStart \/ RouteTick \/ RouteReply \/ RouteTimeout \/ GcReply

SpecDist == DistInit /\ [][DistNext]_vars

\* Time does pass and the timer of the routing request does fire; neither
\* provider nor database is required to answer.
SpecDistFair == SpecDist /\ WF_vars(RouteTick) /\ WF_vars(RouteTimeout)

\* Lanes of 0 .. MaxMiles miles, whole and with a quarter mile.
MaxMiles == 60
Distances == {100 * k + f : k \in 0..MaxMiles, f \in {0, 25}}

EquipmentTypes ==
  {"dry_van", "reefer", "flatbed", "step_deck", "hotshot", "straight_truck", "box_truck"}

Weights ==
  {[given |-> FALSE, v |-> 0]}
  \cup {[given |-> TRUE, v |-> w] : w \in {0, 9999, 10000, 10001, 10100, 10101, 10250}}

EnvRates == {RawJunk, RawNum(0), RawNum(250), RawNum(-100)}
EnvMinimums == {RawJunk, RawNum(0), RawNum(5000), RawNum(25050), RawNum(-500)}

PriceInit ==
  /\ priceArgs \in [distanceMiles : Distances, equipmentType : EquipmentTypes, totalWeight : Weights]
  /\ env \in [BASE_RATE_PER_MILE : EnvRates, MINIMUM_QUOTE : EnvMinimums]
  /\ pricePc = "start"
  /\ quoteAmount = <<>>
  /\ priceResult = NaN
  /\ priceHistory = <<>>
  /\ GeoIdle
  /\ DistIdle
  /\ CreateIdle
  /\ WebIdle

PriceNext == calculateQuoteAmount

SpecPrice == PriceInit /\ [][PriceNext]_vars

\* Repeated calls of calculateQuoteAmount in one process, whose environment
\* may be assigned between the calls.
MaxPriceCalls == 3

RepeatArgs ==
  [distanceMiles : {1000, 6000}, equipmentType : {"dry_van", "reefer"},
   totalWeight : {[given |-> FALSE, v |-> 0]}]

RepeatEnvs == [BASE_RATE_PER_MILE : {RawJunk, RawNum(250)}, MINIMUM_QUOTE : {RawJunk}]

\* The caller calls calculateQuoteAmount once more.
CallAgain ==
  /\ pricePc = "done"
  /\ Len(priceHistory) < MaxPriceCalls
  /\ priceArgs' \in RepeatArgs
  /\ pricePc' = "start"
  /\ quoteAmount' = <<>>
  /\ UNCHANGED <<env, priceResult, priceHistory>>
  /\ UNCHANGED <<geoVars, distVars, createVars, webVars>>

\* process.env is assigned while no call of calculateQuoteAmount is running
\* (the function is synchronous).
SetEnv ==
  /\ pricePc \in {"start", "done"}
  /\ env' \in RepeatEnvs \ {env}
  /\ UNCHANGED <<priceArgs, pricePc, quoteAmount, priceResult, priceHistory>>
  /\ UNCHANGED <<geoVars, distVars, createVars, webVars>>

RepeatInit ==
  /\ priceArgs \in RepeatArgs
  /\ env \in RepeatEnvs
  /\ pricePc = "start"
  /\ quoteAmount = <<>>
  /\ priceResult = NaN
  /\ priceHistory = <<>>
  /\ GeoIdle
  /\ DistIdle
  /\ CreateIdle
  /\ WebIdle

RepeatNext == calculateQuoteAmount \/ CallAgain \/ SetEnv

SpecRepeat == RepeatInit /\ [][RepeatNext]_vars

----------------------------------------------------------------------------
(* createQuote: inputs, steps and specification *)

NoFrame ==
  [originCoords |-> NoResult, destCoords |-> NoResult, distance |-> NoResult,
   quoteAmount |-> NaN, params |-> <<>>]

NoAnswers == [origin |-> <<>>, destination |-> <<>>, distance |-> <<>>, insert |-> <<>>]

\* The place the provider knows for a city, in tenths of a degree; Hagatna
\* (Guam, US) lies outside the North America box.
PlaceOf(city) ==
  CASE city = "Toronto" -> [lat |-> RawNum(437), lon |-> RawNum(-794)]
    [] city = "Vancouver" -> [lat |-> RawNum(493), lon |-> RawNum(-1231)]
    [] OTHER -> [lat |-> RawNum(135), lon |-> RawNum(1448)]

CreateLocations ==
  {[city |-> "Toronto", postal_code |-> "M5H 2N2", state_province |-> "ON", country |-> "CA"],
   [city |-> "Vancouver", postal_code |-> Absent, state_province |-> Absent, country |-> "CA"],
   [city |-> "Hagatna", postal_code |-> Absent, state_province |-> Absent, country |-> "US"]}

CreateOrigins == {loc \in CreateLocations : loc.city \in {"Toronto", "Hagatna"}}
CreateDestinations == {loc \in CreateLocations : loc.city \in {"Vancouver", "Hagatna"}}

CreateBodies ==
  [origin : CreateOrigins, destination : CreateDestinations,
   equipment_type : {"dry_van", "reefer"},
   total_weight : {[given |-> TRUE, v |-> 10250]}]

\* What the geocoding provider may answer to a query about loc.
CreateGeoAnswers(loc) ==
  {[kind |-> "match", lat |-> PlaceOf(loc.city).lat, lon |-> PlaceOf(loc.city).lon,
    display_name |-> loc.city, status |-> "200"],
   [kind |-> "empty", lat |-> RawJunk, lon |-> RawJunk, display_name |-> "", status |-> "200"],
   [kind |-> "http_error", lat |-> RawJunk, lon |-> RawJunk, display_name |-> "", status |-> "503"]}

CreateRouteAnswers ==
  {[kind |-> "routes", meters |-> Num(2500)], [kind |-> "http_error", meters |-> NaN]}

CreateGcAnswers ==
  {[kind |-> "row", row |-> GreatCircleRow(1000)], [kind |-> "error", row |-> GreatCircleRow(0)]}

\* What the INSERT settles to: the row, or an error of the database.
InsertAnswers ==
  {[kind |-> "row", code |-> Absent, message |-> <<>>],
   [kind |-> "error", code |-> "23502", message |-> <<"null value in column">>],
   [kind |-> "error", code |-> Absent, message |-> <<"Connection terminated">>]}

CallGeocodeOrigin == "geocodeLocation(origin)"
CallGeocodeDestination == "geocodeLocation(destination)"
CallDistance == "calculateDistance"
CallAmount == "calculateQuoteAmount"
CallInsert == "query(INSERT)"
CallNext == "next(error)"

\* Lines 8-21: the body is read and geocodeLocation(origin) is called.
CqStart(r) ==
  /\ cqPc[r] = "start"
  /\ cqTrace' = [cqTrace EXCEPT ![r] = Append(@, CallGeocodeOrigin)]
  /\ cqPc' = [cqPc EXCEPT ![r] = "await_origin"]
  /\ UNCHANGED <<cqReq, cqFrame, cqAnswers, cqResponses, quotesTable>>
  /\ UNCHANGED <<geoVars, distVars, priceVars, webVars>>

\* Lines 21-33: geocodeLocation(origin) settles.
CqOriginSettled(r) ==
  /\ cqPc[r] = "await_origin"
  /\ \E first, retry \in CreateGeoAnswers(cqReq[r].origin) :
       LET result == geocodeOutcome(cqReq[r].origin, first, retry)
       IN /\ cqAnswers' =
               [cqAnswers EXCEPT ![r].origin = GeoConsulted(cqReq[r].origin, first, retry)]
          /\ IF GeocodeFailed(result)
               THEN /\ cqResponses' =
                         [cqResponses EXCEPT ![r] = Respond(@, GeocodeErrorBody("origin", result.message))]
                    /\ cqPc' = [cqPc EXCEPT ![r] = "done"]
                    /\ UNCHANGED <<cqFrame, cqTrace>>
               ELSE /\ cqFrame' = [cqFrame EXCEPT ![Frame(r)].originCoords = result]
                    /\ cqTrace' = [cqTrace EXCEPT ![r] = Append(@, CallGeocodeDestination)]
                    /\ cqPc' = [cqPc EXCEPT ![r] = "await_destination"]
                    /\ UNCHANGED cqResponses
  /\ UNCHANGED <<cqReq, quotesTable>>
  /\ UNCHANGED <<geoVars, distVars, priceVars, webVars>>

\* Lines 33-50: geocodeLocation(destination) settles; on success
\* calculateDistance is called with the coordinates of both locals.
CqDestinationSettled(r) ==
  /\ cqPc[r] = "await_destination"
  /\ \E first, retry \in CreateGeoAnswers(cqReq[r].destination) :
       LET result == geocodeOutcome(cqReq[r].destination, first, retry)
       IN /\ cqAnswers' =
               [cqAnswers EXCEPT
                  ![r].destination = GeoConsulted(cqReq[r].destination, first, retry)]
          /\ IF GeocodeFailed(result)
               THEN /\ cqResponses' =
                         [cqResponses EXCEPT
                            ![r] = Respond(@, GeocodeErrorBody("destination", result.message))]
                    /\ cqPc' = [cqPc EXCEPT ![r] = "done"]
                    /\ UNCHANGED <<cqFrame, cqTrace>>
               ELSE /\ cqFrame' = [cqFrame EXCEPT ![Frame(r)].destCoords = result]
                    /\ cqTrace' = [cqTrace EXCEPT ![r] = Append(@, CallDistance)]
                    /\ cqPc' = [cqPc EXCEPT ![r] = "await_distance"]
                    /\ UNCHANGED cqResponses
  /\ UNCHANGED <<cqReq, quotesTable>>
  /\ UNCHANGED <<geoVars, distVars, priceVars, webVars>>

\* Lines 44-102: calculateDistance settles; on success the amount is
\* computed and the INSERT is sent.
CqDistanceSettled(r) ==
  /\ cqPc[r] = "await_distance"
  /\ \E route \in CreateRouteAnswers, gc \in CreateGcAnswers :
       LET result == distanceOutcome(route, gc)
           frame == cqFrame[Frame(r)]
           amount == QuoteAmountFor(result.value.distance_miles, cqReq[r].equipment_type,
                                    cqReq[r].total_weight, env)
       IN /\ cqAnswers' = [cqAnswers EXCEPT ![r].distance = DistConsulted(route, gc)]
          /\ IF ~result.ok
               THEN /\ cqResponses' =
                         [cqResponses EXCEPT ![r] = Respond(@, DistanceErrorBody(result.message))]
                    /\ cqPc' = [cqPc EXCEPT ![r] = "done"]
                    /\ UNCHANGED <<cqFrame, cqTrace>>
               ELSE /\ cqFrame' =
                         [cqFrame EXCEPT
                            ![Frame(r)].distance = result,
                            ![Frame(r)].quoteAmount = amount,
                            ![Frame(r)].params =
                               InsertParams(cqReq[r], frame.originCoords, frame.destCoords,
                                            result.value, amount)]
                    /\ cqTrace' = [cqTrace EXCEPT ![r] = @ \o <<CallAmount, CallInsert>>]
                    /\ cqPc' = [cqPc EXCEPT ![r] = "await_insert"]
                    /\ UNCHANGED cqResponses
  /\ UNCHANGED <<cqReq, quotesTable>>
  /\ UNCHANGED <<geoVars, distVars, priceVars, webVars>>

\* Lines 71-127: the INSERT settles; the row is answered with 201, an error
\* goes to next(error) and from there to errorHandler.
CqInsertSettled(r) ==
  /\ cqPc[r] = "await_insert"
  /\ \E answer \in InsertAnswers :
       LET frame == cqFrame[Frame(r)]
           quote == StoredRow(Len(quotesTable) + 1, frame.params)
       IN /\ cqAnswers' = [cqAnswers EXCEPT ![r].insert = <<answer>>]
          /\ IF answer.kind = "row"
               THEN /\ quotesTable' = Append(quotesTable, quote)
                    /\ cqResponses' =
                         [cqResponses EXCEPT
                            ![r] = Respond(@, CreatedBody(quote, frame.originCoords, frame.destCoords))]
                    /\ UNCHANGED cqTrace
               ELSE /\ cqTrace' = [cqTrace EXCEPT ![r] = Append(@, CallNext)]
                    /\ cqResponses' =
                         [cqResponses EXCEPT ![r] = Respond(@, errorHandler(answer, env))]
                    /\ UNCHANGED quotesTable
  /\ cqPc' = [cqPc EXCEPT ![r] = "done"]
  /\ UNCHANGED <<cqReq, cqFrame>>
  /\ UNCHANGED <<geoVars, distVars, priceVars, webVars>>

CreateEnvs ==
  [BASE_RATE_PER_MILE : {RawJunk}, MINIMUM_QUOTE : {RawNum(100)},
   NODE_ENV : {"development", "production"}]

CreateInit ==
  /\ cqReq \in [Executions -> CreateBodies]
  /\ cqPc = [r \in Executions |-> "start"]
  /\ cqFrame = [r \in Executions |-> NoFrame]
  /\ cqAnswers = [r \in Executions |-> NoAnswers]
  /\ cqTrace = [r \in Executions |-> <<>>]
  /\ cqResponses = [r \in Executions |-> <<>>]
  /\ quotesTable = <<>>
  /\ priceArgs = <<>>
  /\ env \in CreateEnvs
  /\ pricePc = "idle"
  /\ quoteAmount = <<>>
  /\ priceResult = NaN
  /\ priceHistory = <<>>
  /\ GeoIdle
  /\ DistIdle
  /\ WebIdle

CreateNext ==
  \E r \in Executions :
    \/ CqStart(r)
    \/ CqOriginSettled(r)
    \/ CqDestinationSettled(r)
    \/ CqDistanceSettled(r)
    \/ CqInsertSettled(r)

SpecCreate == CreateInit /\ [][CreateNext]_vars

----------------------------------------------------------------------------
(* Claims about geocodeLocation (checked under SpecGeo) *)

GeoDone == geoPc = "done"
GeoValidInput == geoLoc.city # Absent /\ geoLoc.country # Absent
GeoHasPostal == geoLoc.postal_code # Absent

\* The answer the provider gave to the i-th call.
GeoAnswer(i) == provider[geoCalls[i]]

\* The last answer the resolution received.
GeoLastAnswer == GeoAnswer(Len(geoCalls))

InBoxRaw(answer) ==
  /\ answer.kind = "match"
  /\ answer.lat.digits /\ answer.lat.v >= 70 /\ answer.lat.v <= 830
  /\ answer.lon.digits /\ answer.lon.v >= -1800 /\ answer.lon.v <= -500

\* C2: when the provider finds no match for the query with the postal code
\* but matches the query of city, state/province and country alone (inside
\* the box), the resolution succeeds with the point of that second query.
C2_NoMatchPostalStillResolves ==
  (/\ GeoDone /\ GeoValidInput /\ GeoHasPostal
   /\ provider[Query(geoLoc)].kind = "empty"
   /\ InBoxRaw(provider[Tail(Query(geoLoc))]))
  => /\ geoResult.ok
     /\ geoResult.latitude = Num(provider[Tail(Query(geoLoc))].lat.v)
     /\ geoResult.longitude = Num(provider[Tail(Query(geoLoc))].lon.v)

\* C3: on success the accuracy is postal_code only when the query that
\* produced the match contained the postal code, city_state when a
\* state/province was given and the postal code was absent or dropped on
\* retry, and city_only otherwise.
C3_AccuracyFollowsMatchingQuery ==
  (GeoDone /\ geoResult.ok) =>
    geoResult.accuracy =
      (IF GeoHasPostal /\ Len(geoCalls) = 1 THEN "postal_code"
       ELSE IF geoLoc.state_province # Absent THEN "city_state"
       ELSE "city_only")

\* C4: every returned point lies in the box 7 <= latitude <= 83,
\* -180 <= longitude <= -50, edges included; when the last answer is a match,
\* the resolution succeeds exactly when both coordinates parse and lie in the
\* box, and otherwise fails with the out-of-region error, on the first query
\* and on the retry alike.
C4_OnlyPointsInsideBox ==
  GeoDone =>
    /\ geoResult.ok =>
         /\ ~geoResult.latitude.nan /\ ~geoResult.longitude.nan
         /\ geoResult.latitude.v >= 70 /\ geoResult.latitude.v <= 830
         /\ geoResult.longitude.v >= -1800 /\ geoResult.longitude.v <= -500
    /\ (Len(geoCalls) >= 1 /\ GeoLastAnswer.kind = "match") =>
         /\ geoResult.ok <=> InBoxRaw(GeoLastAnswer)
         /\ ~geoResult.ok => geoResult.message[1] = MsgOutside

C4_Witness ==
  /\ GeoDone /\ Len(geoCalls) = 2
  /\ GeoLastAnswer.kind = "match"
  /\ GeoLastAnswer.lat = RawNum(831)
  /\ ~geoResult.ok /\ geoResult.message[1] = MsgOutside

----------------------------------------------------------------------------
(* Claims about calculateDistance (checked under SpecDist, SpecDistFair) *)

DistDone == distPc = "done"
RoutingFailed == routeReply.kind \in {"timeout", "http_error", "network_error", "no_routes"}
LastLog == distLog[Len(distLog)]

\* C5: calculateDistance sends the routing request once and never again; on
\* every kind of routing failure (timeout, HTTP error, network error, answer
\* without a route) it sends the great-circle query exactly once and returns
\* its distance as a success; it sends no great-circle query when routing
\* answered with a route; it fails only when the routing call and the
\* great-circle query both failed.
C5_FallbackOnEveryRoutingFailure ==
  /\ routeCalls <= 1
  /\ gcCalls <= 1
  /\ DistDone =>
       /\ routeCalls = 1
       /\ RoutingFailed =>
            /\ gcCalls = 1
            /\ gcReply.kind = "row" =>
                 /\ distResult.ok
                 /\ distResult.value.distance_km = Num(gcReply.row.distance_km.v)
                 /\ distResult.value.distance_miles = Num(gcReply.row.distance_miles.v)
       /\ routeReply.kind = "routes" => (gcCalls = 0 /\ distResult.ok)
       /\ ~distResult.ok => (RoutingFailed /\ gcReply.kind \in {"no_rows", "error"})

C5_Witness ==
  /\ DistDone
  /\ routeReply.kind = "no_routes"
  /\ routeCalls = 1 /\ gcCalls = 1
  /\ distResult.ok
  /\ distResult.value.distance_km.v > 0

C7_FallbackCannotFail ==
  (DistDone /\ routeReply.kind = "timeout") => distResult.ok

C7_TimeoutInvariant ==
  /\ distPc = "await_route" => elapsed < 5000 + TickMs
  /\ routeReply.kind = "timeout" =>
       /\ elapsed >= 5000
       /\ routeCalls = 1 /\ gcCalls = 1
       /\ distPc \in {"await_gc", "done"}
  /\ (DistDone /\ routeReply.kind = "timeout") =>
       /\ distResult.ok <=> (gcReply.kind = "row")
       /\ ~distResult.ok => distResult.message[1] = "Failed to calculate distance: "

\* C7 amended: a pending routing request is always abandoned, at the latest
\* when its 5000 ms timeout has elapsed, and on the timeout control passes to
\* the great-circle fallback without a second routing request.  The fallback
\* is a query sent to the database: calculateDistance then succeeds exactly
\* when that query returns a row, and fails with "Failed to calculate
\* distance" when the query fails or returns no row.
C7_TimeoutHandsOverToDatabase ==
  /\ []C7_TimeoutInvariant
  /\ (distPc = "await_route") ~> (distPc # "await_route")

C7_Witness ==
  /\ DistDone
  /\ routeReply.kind = "timeout"
  /\ gcReply.kind = "error"
  /\ ~distResult.ok

----------------------------------------------------------------------------
(* Claims about calculateQuoteAmount (checked under SpecPrice) *)

PriceDone == pricePc = "done"

SixTypes == {"dry_van", "reefer", "flatbed", "step_deck", "hotshot", "straight_truck"}

PriceValidInput ==
  /\ priceArgs.distanceMiles >= 0
  /\ priceArgs.equipmentType \in SixTypes
  /\ priceArgs.totalWeight.given => priceArgs.totalWeight.v >= 0

\* Rate and minimum in effect, in cents: the default when the environment
\* variable is unset, not a number or 0.
EffectiveRate ==
  IF env.BASE_RATE_PER_MILE \in {RawJunk, RawNum(0)} THEN 200 ELSE env.BASE_RATE_PER_MILE.v
EffectiveMinimum ==
  IF env.MINIMUM_QUOTE \in {RawJunk, RawNum(0)} THEN 10000 ELSE env.MINIMUM_QUOTE.v

MultiplierTable ==
  [dry_van |-> 100, reefer |-> 120, flatbed |-> 115, step_deck |-> 120,
   hotshot |-> 85, straight_truck |-> 95]

\* distance x rate x multiplier, in 10^-6 dollar
Linehaul ==
  priceArgs.distanceMiles * EffectiveRate * MultiplierTable[priceArgs.equipmentType]

\* C8: for every valid input the returned amount is at least minimumQuote,
\* whatever the multiplier: the floor is applied after the equipment
\* multiplier and the weight surcharge.
C8_AmountAtLeastMinimum ==
  (PriceDone /\ PriceValidInput) =>
    /\ ~priceResult.nan
    /\ priceResult.v >= EffectiveMinimum
    /\ quoteAmount.afterFloor >= quoteAmount.afterWeight

C8_Witness ==
  /\ PriceDone
  /\ priceArgs.equipmentType = "hotshot"
  /\ priceArgs.distanceMiles = 5500
  /\ EffectiveRate = 200 /\ EffectiveMinimum = 10000
  /\ quoteAmount.base >= 10000 * 10000
  /\ quoteAmount.afterWeight < 10000 * 10000
  /\ priceResult.v = 10000

\* C9: for each of the six equipment types, a distance >= 0 and no weight,
\* the amount is max(distance x rate x multiplier, minimumQuote) rounded to
\* 2 decimals.
C9_AmountWithoutWeight ==
  (PriceDone /\ PriceValidInput /\ ~priceArgs.totalWeight.given) =>
    priceResult =
      Num((IF Linehaul >= EffectiveMinimum * 10000
             THEN Linehaul + 5000
             ELSE EffectiveMinimum * 10000 + 5000) \div 10000)

C9_Witness ==
  /\ PriceDone /\ ~priceArgs.totalWeight.given
  /\ priceArgs.equipmentType = "hotshot"
  /\ priceArgs.distanceMiles = 6025
  /\ EffectiveRate = 200 /\ EffectiveMinimum = 10000
  /\ priceResult = Num(10243)

\* The number of started 100-lb increments of the weight over the threshold.
Increments ==
  IF priceArgs.totalWeight.given /\ priceArgs.totalWeight.v > 10000
    THEN CHOOSE n \in 1..(priceArgs.totalWeight.v - 10000) :
           /\ 100 * n >= priceArgs.totalWeight.v - 10000
           /\ 100 * (n - 1) < priceArgs.totalWeight.v - 10000
    ELSE 0

\* C10: the weight surcharge is 0 when totalWeight is absent or <= 10000 lb
\* and ceil((totalWeight - 10000) / 100) x 0.10 otherwise (one increment at
\* 10001, three at 10250); it is added to the amount after the equipment
\* multiplier and is not multiplied.
C10_WeightSurcharge ==
  PriceDone =>
    /\ quoteAmount.afterEquipment =
         priceArgs.distanceMiles * EffectiveRate
           * (IF priceArgs.equipmentType \in SixTypes
                THEN MultiplierTable[priceArgs.equipmentType] ELSE 100)
    /\ quoteAmount.afterWeight - quoteAmount.afterEquipment = Increments * 100000
    /\ (priceArgs.totalWeight.given /\ priceArgs.totalWeight.v = 10001)
         => quoteAmount.afterWeight - quoteAmount.afterEquipment = 100000
    /\ (priceArgs.totalWeight.given /\ priceArgs.totalWeight.v = 10250)
         => quoteAmount.afterWeight - quoteAmount.afterEquipment = 300000
    /\ priceResult = Num(RoundToCents(Max(quoteAmount.afterWeight, EffectiveMinimum * 10000)))

C10_Witness ==
  /\ PriceDone
  /\ priceArgs.totalWeight = [given |-> TRUE, v |-> 10250]
  /\ priceArgs.equipmentType = "hotshot"
  /\ priceArgs.distanceMiles = 6000
  /\ EffectiveRate = 200 /\ EffectiveMinimum = 10000
  /\ priceResult = Num(10230)

----------------------------------------------------------------------------
(* Further claims about calculateQuoteAmount (SpecPrice) *)

\* C11: for an equipment type outside the six known values
\* calculateQuoteAmount returns no amount (it rejects the input).
C11_UnknownTypeRejected ==
  (PriceDone /\ priceArgs.equipmentType \notin SixTypes) => priceResult.nan

----------------------------------------------------------------------------
(* Further claims about calculateDistance (SpecDist) *)

DistValue == distResult.value
DistNumeric == ~DistValue.distance_km.nan /\ ~DistValue.distance_miles.nan

\* miles = kilometers x 0.621371, in units of 10^-9 mile
MilesExact(value) ==
  /\ value.distance_km.v % 1000 = 0
  /\ value.distance_miles.v = (value.distance_km.v \div 1000) * 621371

AbsDiff(a, b) == IF a >= b THEN a - b ELSE b - a

C13_NonNegativeZeroForSamePoint ==
  DistDone =>
    /\ distResult.ok =>
         /\ Geq(DistValue.distance_km, Num(0))
         /\ Geq(DistValue.distance_miles, Num(0))
    /\ distArgs.origin = distArgs.dest =>
         /\ distResult.ok
         /\ DistValue.distance_km = Num(0)
         /\ DistValue.distance_miles = Num(0)


----------------------------------------------------------------------------
(* Further claims about geocodeLocation (SpecGeo) *)

GeoLastQuery == geoCalls[Len(geoCalls)]

\* the message is a not-found message that ends with the given query
NotFoundCarrying(msg, q) ==
  \E k \in 1..Len(msg) :
    /\ msg[k] = MsgNotFound
    /\ SubSeq(msg, k + 1, Len(msg)) = q

\* C15: when the last query sent finds no match (after the retry or on the
\* path without postal code), geocodeLocation fails with a not-found error
\* that carries the query that was attempted last.
C15_NotFoundCarriesAttemptedQuery ==
  (GeoDone /\ geoCalls # <<>> /\ GeoLastAnswer.kind = "empty") =>
    /\ ~geoResult.ok
    /\ NotFoundCarrying(geoResult.message, GeoLastQuery)


\* C18: a descriptor whose city or country is absent or empty is rejected
\* with the invalid-input error before any provider call is made, and no call
\* is made afterwards either (the failure is not retried).
C18_MissingFieldsRejectedBeforeAnyCall ==
  (geoPc # "idle" /\ ~GeoValidInput) =>
    /\ geoCalls = <<>>
    /\ geoPc \in {"start", "done"}
    /\ GeoDone => geoResult = Thrown(MsgRequired)

C18_Witness ==
  /\ GeoDone /\ geoLoc.city # Absent /\ geoLoc.country = Absent
  /\ GeoHasPostal
  /\ geoCalls = <<>>
  /\ geoResult = Thrown(MsgRequired)


----------------------------------------------------------------------------
(* Claims about repeated calls of calculateQuoteAmount (SpecRepeat) *)

PriceCalls == 1..Len(priceHistory)

----------------------------------------------------------------------------
(* The outcome functions agree with the step machines (SpecGeo, SpecDist) *)

GeocodeOutcomeAgrees ==
  GeoDone =>
    /\ geoResult = geocodeOutcome(geoLoc, provider[Query(geoLoc)], provider[FallbackQuery(geoLoc)])
    /\ Len(geoCalls) =
         Len(GeoConsulted(geoLoc, provider[Query(geoLoc)], provider[FallbackQuery(geoLoc)]))

DistanceOutcomeAgrees ==
  DistDone => distResult = distanceOutcome(routeReply, gcReply)


----------------------------------------------------------------------------
(* Claims about createQuote (SpecCreate) *)

CqDone(r) == cqPc[r] = "done"

NoGeoAnswer ==
  [kind |-> "none", lat |-> RawJunk, lon |-> RawJunk, display_name |-> "", status |-> ""]

GeoAnswerAt(answers, i) == IF i <= Len(answers) THEN answers[i] ELSE NoGeoAnswer

\* What a resolution settles to, from the answers it received.
GeoOutcomeOf(loc, answers) ==
  geocodeOutcome(loc, GeoAnswerAt(answers, 1), GeoAnswerAt(answers, 2))

OriginOutcome(r) == GeoOutcomeOf(cqReq[r].origin, cqAnswers[r].origin)
DestinationOutcome(r) == GeoOutcomeOf(cqReq[r].destination, cqAnswers[r].destination)

OriginSettled(r) == cqPc[r] \notin {"start", "await_origin"}
DestinationSettled(r) ==
  OriginSettled(r) /\ OriginOutcome(r).ok /\ cqPc[r] # "await_destination"

OriginFailed(r) == OriginSettled(r) /\ ~OriginOutcome(r).ok
DestinationFailed(r) == DestinationSettled(r) /\ ~DestinationOutcome(r).ok

Called(r, call) == \E i \in 1..Len(cqTrace[r]) : cqTrace[r][i] = call

InsertedRows == {r \in Executions : cqAnswers[r].insert # <<>> /\ cqAnswers[r].insert[1].kind = "row"}

\* C14: in every execution of createQuote calculateDistance is called only
\* after both geocodeLocation calls have been made and have succeeded; when
\* either resolution fails the execution makes no distance call, no pricing
\* call and no insert, and the quotes table holds no row of it.
C14_DistanceOnlyAfterBothResolved ==
  \A r \in Executions :
    /\ Called(r, CallDistance) =>
         /\ DestinationSettled(r) /\ OriginOutcome(r).ok /\ DestinationOutcome(r).ok
         /\ Len(cqTrace[r]) >= 3
         /\ SubSeq(cqTrace[r], 1, 3) = <<CallGeocodeOrigin, CallGeocodeDestination, CallDistance>>
    /\ (OriginFailed(r) \/ DestinationFailed(r)) =>
         /\ ~Called(r, CallDistance) /\ ~Called(r, CallAmount) /\ ~Called(r, CallInsert)
         /\ cqAnswers[r].distance = <<>>
         /\ cqAnswers[r].insert = <<>>
         /\ r \notin InsertedRows
    /\ Len(quotesTable) = Cardinality(InsertedRows)

\* One execution stopped at the failed destination while the other one
\* went through to its insert.
C14_Witness ==
  \E r, q \in Executions :
    /\ CqDone(r) /\ DestinationFailed(r)
    /\ cqTrace[r] = <<CallGeocodeOrigin, CallGeocodeDestination>>
    /\ CqDone(q) /\ q \in InsertedRows
    /\ Len(quotesTable) = 1


GeocodingFailure(r) == CqDone(r) /\ (OriginFailed(r) \/ DestinationFailed(r))

\* The side a geocoding error response names.
NamedSide(resp) == resp.message[2]

Mentions(resp, side) == \E i \in 1..Len(resp.message) : resp.message[i] = side

\* C17: when a resolution fails in createQuote the only response is a 400
\* that names the side whose resolution failed, and it names no side whose
\* resolution succeeded (or was never attempted); a geocoding error response
\* is given only when the named side failed.
C17_FailedSideNamed ==
  \A r \in Executions :
    CqDone(r) =>
      /\ OriginFailed(r) =>
           /\ Len(cqResponses[r]) = 1
           /\ cqResponses[r][1].status = 400
           /\ NamedSide(cqResponses[r][1]) = "origin"
           /\ ~Mentions(cqResponses[r][1], "destination")
      /\ DestinationFailed(r) =>
           /\ Len(cqResponses[r]) = 1
           /\ cqResponses[r][1].status = 400
           /\ NamedSide(cqResponses[r][1]) = "destination"
           /\ ~Mentions(cqResponses[r][1], "origin")
      /\ \A i \in 1..Len(cqResponses[r]) :
           cqResponses[r][i].error = "Geocoding error" =>
             OriginFailed(r) \/ DestinationFailed(r)

C17_Witness ==
  \E r \in Executions :
    /\ CqDone(r) /\ OriginOutcome(r).ok /\ DestinationFailed(r)
    /\ cqResponses[r][1].status = 400
    /\ NamedSide(cqResponses[r][1]) = "destination"

LastOf(answers) == answers[Len(answers)]

\* The answers to the resolution that failed.
FailureAnswers(r) ==
  IF OriginFailed(r) THEN cqAnswers[r].origin ELSE cqAnswers[r].destination

OutOfRegion(r) ==
  /\ GeocodingFailure(r) /\ FailureAnswers(r) # <<>>
  /\ LastOf(FailureAnswers(r)).kind = "match" /\ ~InBoxRaw(LastOf(FailureAnswers(r)))

NotFound(r) ==
  /\ GeocodingFailure(r) /\ FailureAnswers(r) # <<>>
  /\ LastOf(FailureAnswers(r)).kind = "empty"

\* What a caller can read from a response without its message text.
ErrorKind(resp) == <<resp.status, resp.error>>

\* C16 as stated: an out-of-region failure is answered with an error kind
\* different from that of a not-found failure.
C16_OutOfRegionDistinctKind ==
  \A r, q \in Executions :
    (OutOfRegion(r) /\ NotFound(q)) =>
      ErrorKind(cqResponses[r][1]) # ErrorKind(cqResponses[q][1])

\* What geocodeLocation threw, as the response repeats it after the prefix.
ErrorText(resp) == SubSeq(resp.message, 4, Len(resp.message))

\* C16 amended: every geocoding failure is answered with status 400 and
\* error 'Geocoding error'; the out-of-region case differs from the others
\* only in the message, which then is the out-of-bounds text with the
\* coordinates and without the 'Geocoding failed: ' prefix, while a
\* not-found failure reads 'Geocoding failed: Could not geocode location: '.
C16_SameKindMessageDiffers ==
  \A r \in Executions :
    GeocodingFailure(r) =>
      /\ cqResponses[r] # <<>>
      /\ ErrorKind(cqResponses[r][1]) = <<400, "Geocoding error">>
      /\ OutOfRegion(r) <=> ErrorText(cqResponses[r][1])[1] = MsgOutside
      /\ OutOfRegion(r) => Len(ErrorText(cqResponses[r][1])) = 3
      /\ NotFound(r) =>
           SubSeq(ErrorText(cqResponses[r][1]), 1, 2) = <<MsgFailed, MsgNotFound>>

C16_Witness ==
  \E r, q \in Executions :
    /\ OutOfRegion(r) /\ NotFound(q)
    /\ ErrorKind(cqResponses[r][1]) = ErrorKind(cqResponses[q][1])
    /\ cqResponses[r][1].message # cqResponses[q][1].message


\* The response of one execution of createQuote run alone on a body, given
\* the answers to its calls, the environment and the id the table assigns.
SoloResponse(body, answers, e, id) ==
  LET o == GeoOutcomeOf(body.origin, answers.origin)
      d == GeoOutcomeOf(body.destination, answers.destination)
      dist == distanceOutcome(answers.distance[1],
                              IF Len(answers.distance) = 2 THEN answers.distance[2]
                              ELSE [kind |-> "none"])
      amount == QuoteAmountFor(dist.value.distance_miles, body.equipment_type,
                               body.total_weight, e)
      quote == StoredRow(id, InsertParams(body, o, d, dist.value, amount))
  IN IF ~o.ok THEN GeocodeErrorBody("origin", o.message)
     ELSE IF ~d.ok THEN GeocodeErrorBody("destination", d.message)
     ELSE IF ~dist.ok THEN DistanceErrorBody(dist.message)
     ELSE IF answers.insert[1].kind = "row" THEN CreatedBody(quote, o, d)
     ELSE errorHandler(answers.insert[1], e)

Created(r) == CqDone(r) /\ r \in InsertedRows

RowId(r) == IF Created(r) THEN cqResponses[r][1].data.quote.id ELSE 0

\* C20: under every interleaving of the executions of createQuote, the
\* locals of an execution hold the results of its own calls, and its
\* response (distance, accuracy tags and amount included) is the one the
\* same request gives when run alone with the same answers to its calls.
C20_EachExecutionAsIfAlone ==
  \A r \in Executions :
    /\ (OriginSettled(r) /\ OriginOutcome(r).ok) =>
         cqFrame[r].originCoords = OriginOutcome(r)
    /\ (DestinationSettled(r) /\ DestinationOutcome(r).ok) =>
         cqFrame[r].destCoords = DestinationOutcome(r)
    /\ CqDone(r) =>
         cqResponses[r] = <<SoloResponse(cqReq[r], cqAnswers[r], env, RowId(r))>>

\* Both executions answered 201, with different answers to their calls and
\* different distances and amounts.
C20_Witness ==
  /\ \A r \in Executions : Created(r)
  /\ cqResponses["x"][1].data.quote.distance_miles # cqResponses["y"][1].data.quote.distance_miles
  /\ cqResponses["x"][1].data.quote.quote_amount # cqResponses["y"][1].data.quote.quote_amount
  /\ cqAnswers["x"].origin # cqAnswers["y"].origin
  /\ RowId("x") # RowId("y")


----------------------------------------------------------------------------
(* Further claims about calculateQuoteAmount: order and configuration (SpecPrice) *)

\* The amount calculateQuoteAmount returns for args under e, in cents.
AmountOf(args, e) == RoundToCents(QuoteSteps(args, e).afterFloor)

LongerLanes == {d \in Distances : d >= priceArgs.distanceMiles}
HeavierLoads == {w \in Weights : TotalWeight([totalWeight |-> w]) >= TotalWeight(priceArgs)}

NotLowerWithDistance ==
  \A d \in LongerLanes :
    AmountOf([priceArgs EXCEPT !.distanceMiles = d], env) >= priceResult.v

NotLowerWithWeight ==
  \A w \in HeavierLoads :
    AmountOf([priceArgs EXCEPT !.totalWeight = w], env) >= priceResult.v

\* C26 as stated: the amount never gets lower when distanceMiles grows
\* (equipment type and weight fixed) or when totalWeight grows (distance
\* and equipment type fixed).
C26_MonotoneInDistanceAndWeight ==
  PriceDone => (NotLowerWithDistance /\ NotLowerWithWeight)

\* C26 amended: the amount never gets lower when totalWeight grows; it never
\* gets lower when distanceMiles grows provided the base rate in effect is
\* not negative, and with a negative configured rate it never gets higher.
C26_MonotoneForNonNegativeRate ==
  PriceDone =>
    /\ NotLowerWithWeight
    /\ baseRatePerMile(env) >= 0 => NotLowerWithDistance
    /\ baseRatePerMile(env) < 0 =>
         \A d \in LongerLanes :
           AmountOf([priceArgs EXCEPT !.distanceMiles = d], env) <= priceResult.v

\* A lane at the floor whose longer lanes cost more, and a load whose heavier
\* loads cost more.
C26_Witness ==
  /\ PriceDone
  /\ baseRatePerMile(env) = 200 /\ minimumQuote(env) = 10000
  /\ priceResult.v = 10000
  /\ \E d \in LongerLanes :
       AmountOf([priceArgs EXCEPT !.distanceMiles = d], env) > priceResult.v
  /\ priceArgs.distanceMiles = 5000 /\ priceArgs.equipmentType = "dry_van"
  /\ \E w \in HeavierLoads :
       AmountOf([priceArgs EXCEPT !.totalWeight = w], env) > priceResult.v

\* C27: the base rate and the minimum in effect are never 0: a configured
\* value that is 0 or not a number gives the default (2.00, 100.00), every
\* other number, negative ones included, is used as configured; the amount
\* is computed from these two values.
C27_EffectiveRateAndMinimumNeverZero ==
  PriceDone =>
    /\ baseRatePerMile(env) # 0 /\ minimumQuote(env) # 0
    /\ baseRatePerMile(env) = EffectiveRate
    /\ minimumQuote(env) = EffectiveMinimum
    /\ quoteAmount.base = priceArgs.distanceMiles * EffectiveRate * 100
    /\ quoteAmount.afterFloor = Max(quoteAmount.afterWeight, EffectiveMinimum * 10000)

\* A configured rate of 0 replaced by 2.00 next to a negative configured
\* minimum that is used as it is.
C27_Witness ==
  /\ PriceDone
  /\ env.BASE_RATE_PER_MILE = RawNum(0) /\ baseRatePerMile(env) = 200
  /\ env.MINIMUM_QUOTE = RawNum(-500) /\ minimumQuote(env) = -500
  /\ priceArgs.distanceMiles = 100
  /\ priceResult.v = RoundToCents(quoteAmount.afterWeight)


----------------------------------------------------------------------------
(* Further claims about createQuote: the quotes table and the outcome (SpecCreate) *)

RowsWithId(id) == {i \in 1..Len(quotesTable) : quotesTable[i].id = id}

AnsweredCreated(r) == cqResponses[r] # <<>> /\ cqResponses[r][1].status = 201

\* createQuote inserts only after both resolutions, the distance and the
\* amount; an execution answered with an error has no row; a 201 answers
\* with the one row its INSERT stored.
InsertFrame ==
  \A r \in Executions :
    /\ Called(r, CallInsert) =>
         /\ OriginOutcome(r).ok /\ DestinationOutcome(r).ok
         /\ cqFrame[r].distance.ok /\ cqFrame[r].quoteAmount # NoFrame.quoteAmount
         /\ cqTrace[r][Len(cqTrace[r])] \in {CallInsert, CallNext}
         /\ SubSeq(cqTrace[r], 1, 5) =
              <<CallGeocodeOrigin, CallGeocodeDestination, CallDistance, CallAmount, CallInsert>>
    /\ (CqDone(r) /\ ~AnsweredCreated(r)) => r \notin InsertedRows
    /\ AnsweredCreated(r) =>
         /\ r \in InsertedRows
         /\ Cardinality(RowsWithId(RowId(r))) = 1
         /\ cqResponses[r][1].data.quote = quotesTable[RowId(r)]
         /\ \A q \in Executions \ {r} : AnsweredCreated(q) => RowId(q) # RowId(r)
    /\ Len(quotesTable) = Cardinality(InsertedRows)

\* C24 as stated: InsertFrame, and the row of a 201 holds the distance and
\* the amount of that computation.
C24_RowHoldsDistanceAndAmount ==
  /\ InsertFrame
  /\ \A r \in Executions :
       AnsweredCreated(r) =>
         /\ quotesTable[RowId(r)].distance_miles = cqFrame[r].distance.value.distance_miles
         /\ quotesTable[RowId(r)].distance_kilometers = cqFrame[r].distance.value.distance_km
         /\ quotesTable[RowId(r)].quote_amount = cqFrame[r].quoteAmount

\* C24 amended: InsertFrame, and the row of a 201 holds the amount of that
\* computation and its distance in miles and kilometers rounded to two
\* decimals by the DECIMAL(10, 2) columns (the great-circle distance is not
\* rounded by the code).
C24_RowHoldsRoundedDistanceAndAmount ==
  /\ InsertFrame
  /\ \A r \in Executions :
       AnsweredCreated(r) =>
         /\ quotesTable[RowId(r)].distance_miles =
              Decimal2(cqFrame[r].distance.value.distance_miles, 10000000)
         /\ quotesTable[RowId(r)].distance_kilometers =
              Decimal2(cqFrame[r].distance.value.distance_km, 10000)
         /\ quotesTable[RowId(r)].quote_amount = cqFrame[r].quoteAmount

\* A 201 on the great-circle path: 0.621371 mile computed, 0.62 stored.
C24_Witness ==
  \E r \in Executions :
    /\ AnsweredCreated(r)
    /\ Len(cqAnswers[r].distance) = 2
    /\ cqFrame[r].distance.value.distance_miles = Num(621371000)
    /\ quotesTable[RowId(r)].distance_miles = Num(620000000)
    /\ quotesTable[RowId(r)].quote_amount = cqFrame[r].quoteAmount

NextCalls(r) == Cardinality({i \in 1..Len(cqTrace[r]) : cqTrace[r][i] = CallNext})

\* The responses createQuote wrote itself: errorHandler writes one response
\* for each next(error).
OwnResponses(r) == Len(cqResponses[r]) - NextCalls(r)

\* C25: once the calls of an execution have settled, createQuote has
\* produced exactly one outcome, a response of its own (201, 400 or 500) or
\* one call of next(error), and the client has received exactly one
\* response; before that it has produced none.
C25_ExactlyOneOutcome ==
  \A r \in Executions :
    /\ CqDone(r) =>
         /\ OwnResponses(r) + NextCalls(r) = 1
         /\ OwnResponses(r) \in {0, 1}
         /\ Len(cqResponses[r]) = 1
         /\ OwnResponses(r) = 1 => cqResponses[r][1].status \in {201, 400, 500}
    /\ ~CqDone(r) => (cqResponses[r] = <<>> /\ NextCalls(r) = 0)

\* Both kinds of outcome: one execution answered itself, the other one
\* handed a failed INSERT to next(error).
C25_Witness ==
  \E r, q \in Executions :
    /\ CqDone(r) /\ OwnResponses(r) = 1 /\ NextCalls(r) = 0
    /\ CqDone(q) /\ OwnResponses(q) = 0 /\ NextCalls(q) = 1


----------------------------------------------------------------------------
(* getAllQuotes (quoteController.js) and its route *)

\* A text is the sequence of its characters.
DigitChars == <<"0", "1", "2", "3", "4", "5", "6", "7", "8", "9">>

IsDigit(c) == \E d \in 1..10 : DigitChars[d] = c

DigitValue(c) == (CHOOSE d \in 1..10 : DigitChars[d] = c) - 1

RECURSIVE LeadingDigits(_)
LeadingDigits(text) ==
  IF text = <<>> \/ ~IsDigit(Head(text)) THEN <<>>
  ELSE <<Head(text)>> \o LeadingDigits(Tail(text))

RECURSIVE DigitsValue(_)
DigitsValue(digits) ==
  IF digits = <<>> THEN 0
  ELSE DigitsValue(SubSeq(digits, 1, Len(digits) - 1)) * 10 + DigitValue(digits[Len(digits)])

RECURSIVE SkipSpaces(_)
SkipSpaces(text) ==
  IF text # <<>> /\ Head(text) = " " THEN SkipSpaces(Tail(text)) ELSE text

\* parseInt(text): leading white space, an optional sign and the leading
\* decimal digits; NaN when there is no digit.  The empty text stands for
\* an absent parameter too: parseInt(undefined) is NaN as parseInt('') is.
parseInt(text) ==
  LET t == SkipSpaces(text)
      signed == t # <<>> /\ Head(t) \in {"-", "+"}
      digits == LeadingDigits(IF signed THEN Tail(t) ELSE t)
  IN IF digits = <<>> THEN NaN
     ELSE IF signed /\ Head(t) = "-" THEN Num(-DigitsValue(digits))
     ELSE Num(DigitsValue(digits))

\* The text the database sends for a bigint such as COUNT(*).
RECURSIVE CountText(_)
CountText(n) ==
  IF n < 10 THEN <<DigitChars[n + 1]>>
  ELSE CountText(n \div 10) \o <<DigitChars[(n % 10) + 1]>>

pageDefault == 1
limitDefault == 10

\* Line 133: parseInt(req.query.page) || 1
PageOf(q) == OrDefault(parseInt(q.page), pageDefault)

\* Line 134: parseInt(req.query.limit) || 10
LimitOf(q) == OrDefault(parseInt(q.limit), limitDefault)

\* Line 135
OffsetOf(page, limit) == (page - 1) * limit

\* Math.ceil(total / limit) for a limit that is not 0.
CeilDiv(total, limit) == -((-total) \div limit)

MsgOffsetNegative == <<"OFFSET must not be negative">>
MsgLimitNegative == <<"LIMIT must not be negative">>

\* Lines 141-152: ORDER BY created_at DESC LIMIT $1 OFFSET $2.  The database
\* refuses a negative OFFSET and a negative LIMIT.
SelectPage(table, limit, offset) ==
  LET n == Len(table)
      newestFirst == [i \in 1..n |-> table[n + 1 - i]]
      last == IF offset + limit < n THEN offset + limit ELSE n
  IN IF offset < 0 THEN [kind |-> "error", code |-> "2201X", message |-> MsgOffsetNegative, rows |-> <<>>]
     ELSE IF limit < 0 THEN [kind |-> "error", code |-> "2201W", message |-> MsgLimitNegative, rows |-> <<>>]
     ELSE [kind |-> "rows", code |-> Absent, message |-> <<>>,
           rows |-> SubSeq(newestFirst, offset + 1, last)]

\* Lines 155-165: the coordinates of a row as the response carries them.
QuoteWithCoords(row) ==
  LET coords(c) == IF c.lat.nan \/ c.lat.v = 0 THEN <<>>
                   ELSE [latitude |-> c.lat, longitude |-> c.lon]
  IN [row EXCEPT !.origin_coordinates = coords(@),
                 !.destination_coordinates = coords(@)]

\* Lines 167-176
ListBody(rows, page, limit, total) ==
  [status |-> 200, success |-> TRUE,
   data |-> [i \in 1..Len(rows) |-> QuoteWithCoords(rows[i])],
   pagination |-> [page |-> page, limit |-> limit, total |-> total,
                   totalPages |-> IF total.nan THEN NaN ELSE Num(CeilDiv(total.v, limit))]]

NoListFrame == [page |-> 0, limit |-> 0, offset |-> 0, total |-> NaN]

\* Lines 132-138: page, limit and offset are computed and the COUNT query is sent.
ListStart ==
  /\ listPc = "start"
  /\ listFrame' = [page |-> PageOf(listQuery), limit |-> LimitOf(listQuery),
                   offset |-> OffsetOf(PageOf(listQuery), LimitOf(listQuery)),
                   total |-> NaN]
  /\ listPc' = "await_count"
  /\ UNCHANGED <<listQuery, listResponses>>
  /\ UNCHANGED <<geoVars, distVars, priceVars, createVars, homeVars, mapVars>>

DatabaseDown == [kind |-> "error", code |-> Absent, message |-> <<"Connection terminated">>]

\* Lines 138-152 and 177-179: the COUNT query settles; on success the SELECT is sent.
ListCountSettled ==
  /\ listPc = "await_count"
  /\ \/ /\ listFrame' = [listFrame EXCEPT !.total = parseInt(CountText(Len(quotesTable)))]
        /\ listPc' = "await_select"
        /\ UNCHANGED listResponses
     \/ /\ listResponses' = Respond(listResponses, errorHandler(DatabaseDown, env))
        /\ listPc' = "done"
        /\ UNCHANGED listFrame
  /\ UNCHANGED listQuery
  /\ UNCHANGED <<geoVars, distVars, priceVars, createVars, homeVars, mapVars>>

\* Lines 141-179: the SELECT settles; the page is answered, an error goes to
\* next(error) and from there to errorHandler.
ListSelectSettled ==
  /\ listPc = "await_select"
  /\ \E answer \in {SelectPage(quotesTable, listFrame.limit, listFrame.offset), DatabaseDown} :
       listResponses' =
         Respond(listResponses,
                 IF answer.kind = "rows"
                   THEN ListBody(answer.rows, listFrame.page, listFrame.limit, listFrame.total)
                   ELSE errorHandler(answer, env))
  /\ listPc' = "done"
  /\ UNCHANGED <<listQuery, listFrame>>
  /\ UNCHANGED <<geoVars, distVars, priceVars, createVars, homeVars, mapVars>>

QueryTexts ==
  {<<>>, <<"a", "b", "c">>, <<"0">>, <<"1">>, <<"2">>, <<"-", "1">>, <<"2", ".", "5">>,
   <<" ", "3">>, <<"1", "0", "0">>, <<"1", "0", "1">>}

\* The most rows the table holds.
MaxStored == 101

\* A row as createQuote stores it.
ListedParams ==
  [origin |-> [city |-> "Toronto", postal_code |-> "M5H 2N2", state_province |-> "ON",
               country |-> "CA"],
   origin_coordinates |-> [lat |-> Num(437), lon |-> Num(-794)],
   destination |-> [city |-> "Vancouver", postal_code |-> Absent, state_province |-> Absent,
                    country |-> "CA"],
   destination_coordinates |-> [lat |-> Num(493), lon |-> Num(-1231)],
   equipment_type |-> "dry_van",
   total_weight |-> [given |-> TRUE, v |-> 10250],
   distance_miles |-> Num(1550000000),
   distance_kilometers |-> Num(2500000),
   quote_amount |-> 10000]

StoredTables == {[i \in 1..n |-> StoredRow(i, ListedParams)] : n \in {0, 3, MaxStored}}

ListInit ==
  /\ listQuery \in [page : QueryTexts, limit : QueryTexts]
  /\ listPc = "start"
  /\ listFrame = NoListFrame
  /\ listResponses = <<>>
  /\ quotesTable \in StoredTables
  /\ cqReq = <<>>
  /\ cqPc = <<>>
  /\ cqFrame = <<>>
  /\ cqAnswers = <<>>
  /\ cqTrace = <<>>
  /\ cqResponses = <<>>
  /\ priceArgs = <<>>
  /\ env \in CreateEnvs
  /\ pricePc = "idle"
  /\ quoteAmount = <<>>
  /\ priceResult = NaN
  /\ priceHistory = <<>>
  /\ GeoIdle
  /\ DistIdle
  /\ HomeIdle
  /\ MapIdle

ListNext == ListStart \/ ListCountSettled \/ ListSelectSettled

SpecList == ListInit /\ [][ListNext]_vars

(* Claims about getAllQuotes (checked under SpecList) *)

\* C23: for every GET /api/quotes request the effective page is at least 1
\* and the effective limit is between 1 and 100, the offset of the query is
\* never negative and no response carries more than 100 quotes.
C23_PageAndLimitWithinRange ==
  /\ listPc # "start" =>
       /\ listFrame.page >= 1
       /\ listFrame.limit \in 1..100
       /\ listFrame.offset >= 0
  /\ \A i \in 1..Len(listResponses) :
       listResponses[i].status = 200 => Len(listResponses[i].data) <= 100


----------------------------------------------------------------------------
(* POST /api/quotes: validateQuote in front of createQuote *)

KnownTexts ==
  {"Toronto", " Toronto ", "T", "Vancouver", "CA", "US",
   "MX", "FR", "ON", "M5H 2N2", "90210", "90210-1234",
   "ABCDE", "dry_van", "reefer", " reefer ", "flatbed", "step_deck",
   "hotshot", "straight_truck", "dry van", "step deck", "straight truck", "box_truck", ""}

\* The characters of a text.
Chars(s) ==
  CASE s = "Toronto" -> <<"T", "o", "r", "o", "n", "t", "o">>
    [] s = " Toronto " -> <<" ", "T", "o", "r", "o", "n", "t", "o", " ">>
    [] s = "T" -> <<"T">>
    [] s = "Vancouver" -> <<"V", "a", "n", "c", "o", "u", "v", "e", "r">>
    [] s = "CA" -> <<"C", "A">>
    [] s = "US" -> <<"U", "S">>
    [] s = "MX" -> <<"M", "X">>
    [] s = "FR" -> <<"F", "R">>
    [] s = "ON" -> <<"O", "N">>
    [] s = "M5H 2N2" -> <<"M", "5", "H", " ", "2", "N", "2">>
    [] s = "90210" -> <<"9", "0", "2", "1", "0">>
    [] s = "90210-1234" -> <<"9", "0", "2", "1", "0", "-", "1", "2", "3", "4">>
    [] s = "ABCDE" -> <<"A", "B", "C", "D", "E">>
    [] s = "dry_van" -> <<"d", "r", "y", "_", "v", "a", "n">>
    [] s = "reefer" -> <<"r", "e", "e", "f", "e", "r">>
    [] s = " reefer " -> <<" ", "r", "e", "e", "f", "e", "r", " ">>
    [] s = "flatbed" -> <<"f", "l", "a", "t", "b", "e", "d">>
    [] s = "step_deck" -> <<"s", "t", "e", "p", "_", "d", "e", "c", "k">>
    [] s = "hotshot" -> <<"h", "o", "t", "s", "h", "o", "t">>
    [] s = "straight_truck" -> <<"s", "t", "r", "a", "i", "g", "h", "t", "_", "t", "r", "u", "c", "k">>
    [] s = "dry van" -> <<"d", "r", "y", " ", "v", "a", "n">>
    [] s = "step deck" -> <<"s", "t", "e", "p", " ", "d", "e", "c", "k">>
    [] s = "straight truck" -> <<"s", "t", "r", "a", "i", "g", "h", "t", " ", "t", "r", "u", "c", "k">>
    [] s = "box_truck" -> <<"b", "o", "x", "_", "t", "r", "u", "c", "k">>
    [] s = "" -> <<>>

\* The text with the given characters.
Text(chars) == CHOOSE s \in KnownTexts : Chars(s) = chars

RECURSIVE TrimLeft(_)
TrimLeft(chars) ==
  IF chars # <<>> /\ Head(chars) = " " THEN TrimLeft(Tail(chars)) ELSE chars

RECURSIVE TrimRight(_)
TrimRight(chars) ==
  IF chars # <<>> /\ chars[Len(chars)] = " "
    THEN TrimRight(SubSeq(chars, 1, Len(chars) - 1)) ELSE chars

\* .trim()
Trim(s) == Text(TrimRight(TrimLeft(Chars(s))))

UpperChars ==
  {"A", "B", "C", "D", "E", "F", "G", "H", "I", "J", "K", "L", "M",
   "N", "O", "P", "Q", "R", "S", "T", "U", "V", "W", "X", "Y", "Z"}

LowerChars ==
  {"a", "b", "c", "d", "e", "f", "g", "h", "i", "j", "k", "l", "m",
   "n", "o", "p", "q", "r", "s", "t", "u", "v", "w", "x", "y", "z"}

IsLetter(c) == c \in UpperChars \cup LowerChars

AllDigits(chars) == \A i \in 1..Len(chars) : IsDigit(chars[i])

\* /^\d{5}(-\d{4})?$/
usZipRegex(chars) ==
  \/ Len(chars) = 5 /\ AllDigits(chars)
  \/ /\ Len(chars) = 10
     /\ AllDigits(SubSeq(chars, 1, 5))
     /\ chars[6] = "-"
     /\ AllDigits(SubSeq(chars, 7, 10))

\* /^[A-Za-z]\d[A-Za-z] \d[A-Za-z]\d$/i
caPostalRegex(chars) ==
  /\ Len(chars) = 7
  /\ IsLetter(chars[1]) /\ IsDigit(chars[2]) /\ IsLetter(chars[3])
  /\ chars[4] = " "
  /\ IsDigit(chars[5]) /\ IsLetter(chars[6]) /\ IsDigit(chars[7])

\* /^\d{5}$/
mxPostalRegex(chars) == Len(chars) = 5 /\ AllDigits(chars)

\* Lines 36-49 and 77-87: the custom validator of a postal code.
PostalCodeAccepted(value) ==
  \/ value = Absent
  \/ usZipRegex(Chars(value))
  \/ caPostalRegex(Chars(value))
  \/ mxPostalRegex(Chars(value))

validCountries == {"US", "CA", "MX"}

validEquipmentTypes ==
  {"dry_van", "reefer", "flatbed", "step_deck", "hotshot", "straight_truck"}

\* 01_schema.sql line 36: the CHECK constraint on equipment_type.
checkEquipmentTypes ==
  {"dry_van", "reefer", "flatbed", "step_deck", "hotshot", "straight_truck"}

\* QuoteForm.tsx lines 143-180: the ids of the equipment cards, which
\* QuoteRequest.equipment_type of the API client lists as well.
equipmentTypes ==
  {"dry van", "reefer", "flatbed", "step deck", "hotshot", "straight truck"}

MinutesPerDay == 1440

\* Lines 121-129: new Date(value) is midnight UTC of the day, today is
\* midnight of the server's day in the server's zone; both in minutes from
\* midnight UTC of the server's day.  e.TZ is the zone, in minutes east of UTC.
PickupInPast(date, e) ==
  date.iso /\ date.day * MinutesPerDay < 0 - e.TZ

ValidationError(path, msg) == [path |-> path, msg |-> msg]

\* The errors a check adds: none when it holds.
Check(holds, path, msg) == IF holds THEN <<>> ELSE <<ValidationError(path, msg)>>

\* Lines 24-62 and 65-100: the chains of one location.  Every validator of
\* a chain runs; .optional() skips the chain of a field that is not there.
LocationErrors(side, Side, loc) ==
  LET city == Trim(loc.city)
      postal == Trim(loc.postal_code)
      state == Trim(loc.state_province)
      country == Trim(loc.country)
  IN Check(city # Absent, side \o ".city", Side \o " city is required")
     \o Check(Len(Chars(city)) \in 2..100, side \o ".city",
              Side \o " city must be between 2 and 100 characters")
     \o Check(Len(Chars(postal)) <= 20, side \o ".postal_code",
              "Postal code must be 20 characters or less")
     \o Check(PostalCodeAccepted(postal), side \o ".postal_code",
              "Invalid postal code format. Use US ZIP, Canadian postal code, or Mexican CP format")
     \o Check(Len(Chars(state)) <= 50, side \o ".state_province",
              "State/province must be 50 characters or less")
     \o Check(country # Absent, side \o ".country", Side \o " country is required")
     \o Check(country \in validCountries, side \o ".country",
              Side \o " country must be US, CA, or MX")

\* Lines 22-130: errors.array() after the chains of validateQuote have run.
ValidationErrors(body, e) ==
  LET equipment == Trim(body.equipment_type)
      weight == body.total_weight
      date == body.pickup_date
  IN LocationErrors("origin", "Origin", body.origin)
     \o LocationErrors("destination", "Destination", body.destination)
     \o Check(equipment # Absent, "equipment_type", "Equipment type is required")
     \o Check(equipment \in validEquipmentTypes, "equipment_type",
              "Equipment type must be: dry van, reefer, or flatbed")
     \o Check(weight.given, "total_weight", "Total weight is required")
     \o Check(weight.given /\ weight.v > 0, "total_weight",
              "Total weight must be greater than 0")
     \o Check(date.given, "pickup_date", "Pickup date is required")
     \o Check(date.given /\ date.iso, "pickup_date",
              "Pickup date must be a valid ISO 8601 date (YYYY-MM-DD)")
     \o Check(~(date.given /\ PickupInPast(date, e)), "pickup_date",
              "Pickup date cannot be in the past")

\* The sanitizers of the chains write the trimmed texts back into req.body.
Sanitized(body) ==
  LET trimmed(loc) ==
        [city |-> Trim(loc.city), postal_code |-> Trim(loc.postal_code),
         state_province |-> Trim(loc.state_province), country |-> Trim(loc.country)]
  IN [body EXCEPT !.origin = trimmed(@), !.destination = trimmed(@),
                  !.equipment_type = Trim(@)]

HasErrorsNever(errors) == FALSE

\* Line 8: !errors.isEmpty()
HasErrors(errors) == errors # <<>>

\* Lines 9-14
ValidationErrorBody(errors) ==
  [status |-> 400, success |-> FALSE, error |-> "Validation error",
   message |-> <<"Please check your input data">>, data |-> NoData, errors |-> errors]

\* quoteRoutes.js line 16: validateQuote runs first; handleValidationErrors
\* answers 400 or calls next(), which enters createQuote.
ValidateQuote(r) ==
  /\ cqPc[r] = "validate"
  /\ LET errors == ValidationErrors(cqReq[r], env)
     IN IF HasErrors(errors)
          THEN /\ cqResponses' = [cqResponses EXCEPT ![r] = Respond(@, ValidationErrorBody(errors))]
               /\ cqPc' = [cqPc EXCEPT ![r] = "done"]
          ELSE /\ cqPc' = [cqPc EXCEPT ![r] = "start"]
               /\ UNCHANGED cqResponses
  /\ cqReq' = [cqReq EXCEPT ![r] = Sanitized(@)]
  /\ UNCHANGED <<cqFrame, cqAnswers, cqTrace, quotesTable>>
  /\ UNCHANGED <<geoVars, distVars, priceVars, webVars>>

PostExecutions == {"x"}

PostOrigins ==
  [city : {"Toronto", " Toronto ", "T", Absent},
   postal_code : {Absent, "M5H 2N2", "90210", "90210-1234", "ABCDE"},
   state_province : {"ON"},
   country : {"CA", "US", "MX", "FR", Absent}]

PostDestinations ==
  [city : {"Vancouver", Absent}, postal_code : {Absent, "90210"},
   state_province : {Absent}, country : {"CA"}]

PostEquipmentTypes == validEquipmentTypes \cup equipmentTypes \cup {" reefer ", "box_truck", Absent}

PostWeights ==
  {[given |-> FALSE, v |-> 0]} \cup {[given |-> TRUE, v |-> w] : w \in {-5, 0, 10250}}

\* pickup_date: not sent, a text that is no date, or the day as days after
\* the server's day.
PickupDates ==
  {[given |-> FALSE, iso |-> FALSE, day |-> 0], [given |-> TRUE, iso |-> FALSE, day |-> 0]}
  \cup {[given |-> TRUE, iso |-> TRUE, day |-> d] : d \in {-1, 0, 1}}

\* A body that differs from an accepted one in at most the origin, or in at
\* most the destination and the shipment details.
PostBodies ==
  [origin : PostOrigins,
   destination : {[city |-> "Vancouver", postal_code |-> Absent, state_province |-> Absent,
                   country |-> "CA"]},
   equipment_type : {"dry_van", "dry van"},
   total_weight : {[given |-> TRUE, v |-> 10250]},
   pickup_date : {[given |-> TRUE, iso |-> TRUE, day |-> 1]}]
  \cup
  [origin : {[city |-> "Toronto", postal_code |-> "M5H 2N2", state_province |-> "ON",
              country |-> "CA"]},
   destination : PostDestinations,
   equipment_type : PostEquipmentTypes,
   total_weight : PostWeights,
   pickup_date : PickupDates]

PostEnvs ==
  [BASE_RATE_PER_MILE : {RawJunk}, MINIMUM_QUOTE : {RawNum(100)},
   NODE_ENV : {"development", "production"}, TZ : {-300, 0, 540}]

PostInit ==
  /\ cqReq \in [PostExecutions -> PostBodies]
  /\ cqPc = [r \in PostExecutions |-> "validate"]
  /\ cqFrame = [r \in PostExecutions |-> NoFrame]
  /\ cqAnswers = [r \in PostExecutions |-> NoAnswers]
  /\ cqTrace = [r \in PostExecutions |-> <<>>]
  /\ cqResponses = [r \in PostExecutions |-> <<>>]
  /\ quotesTable = <<>>
  /\ priceArgs = <<>>
  /\ env \in PostEnvs
  /\ pricePc = "idle"
  /\ quoteAmount = <<>>
  /\ priceResult = NaN
  /\ priceHistory = <<>>
  /\ GeoIdle
  /\ DistIdle
  /\ WebIdle

PostNext ==
  \E r \in PostExecutions :
    \/ ValidateQuote(r)
    \/ CqStart(r)
    \/ CqOriginSettled(r)
    \/ CqDestinationSettled(r)
    \/ CqDistanceSettled(r)
    \/ CqInsertSettled(r)

SpecPost == PostInit /\ [][PostNext]_vars


(* Claims about POST /api/quotes (checked under SpecPost) *)

Validated(r) == cqPc[r] # "validate"

\* The request was answered by handleValidationErrors, and by nothing else.
RejectedByValidation(r) ==
  /\ Len(cqResponses[r]) = 1
  /\ cqResponses[r][1].status = 400
  /\ cqResponses[r][1].error = "Validation error"

\* The format of the country c: US 5 digits or ZIP+4, CA A1A 1A1, MX 5 digits.
InFormatOf(c, value) ==
  CASE c = "US" -> usZipRegex(Chars(value))
    [] c = "CA" -> caPostalRegex(Chars(value))
    [] c = "MX" -> mxPostalRegex(Chars(value))
    [] OTHER -> FALSE

ForeignPostalCode(loc) ==
  /\ loc.postal_code # Absent
  /\ loc.country \in validCountries
  /\ ~InFormatOf(loc.country, loc.postal_code)

\* C21: a postal code is validated against the format of the location's own
\* country: a request with a postal code that is not in the format of the
\* country given for that location is rejected.
C21_PostalCodeOfOwnCountry ==
  \A r \in DOMAIN cqPc :
    (/\ Validated(r)
     /\ \/ ForeignPostalCode(cqReq[r].origin)
        \/ ForeignPostalCode(cqReq[r].destination))
    => RejectedByValidation(r)

MalformedPostalCode(loc) ==
  /\ loc.postal_code # Absent
  /\ \A c \in validCountries : ~InFormatOf(c, loc.postal_code)

\* The reasons for which the request is said to fail: a missing city or
\* country, a country outside US/CA/MX, an unknown equipment type, a weight
\* that is not above 0, an invalid or past pickup date, a malformed postal code.
FailsValidation(body) ==
  \/ \E loc \in {body.origin, body.destination} :
       \/ loc.city = Absent
       \/ loc.country \notin validCountries
       \/ MalformedPostalCode(loc)
  \/ body.equipment_type \notin validEquipmentTypes
  \/ ~(body.total_weight.given /\ body.total_weight.v > 0)
  \/ ~(body.pickup_date.given /\ body.pickup_date.iso)
  \/ body.pickup_date.day < 0

\* C22: a request that fails validation is answered with a 400 validation
\* error before createQuote runs: no geocoding call, no routing call and no
\* insert happens for it.
C22_RejectedBeforeCreateQuote ==
  \A r \in DOMAIN cqPc :
    (Validated(r) /\ FailsValidation(cqReq[r])) =>
      /\ cqPc[r] = "done"
      /\ RejectedByValidation(r)
      /\ cqTrace[r] = <<>>
      /\ cqAnswers[r] = NoAnswers
      /\ quotesTable = <<>>

\* A request with a weight of 0 and nothing else wrong has been answered.
C22_Witness ==
  \E r \in DOMAIN cqPc :
    /\ cqPc[r] = "done"
    /\ cqReq[r].total_weight = [given |-> TRUE, v |-> 0]
    /\ cqReq[r].equipment_type = "reefer"
    /\ cqReq[r].destination.city = "Vancouver"
    /\ cqReq[r].pickup_date.day = 1
    /\ RejectedByValidation(r)

\* C28: every equipment_type the quote form can submit is accepted by the
\* validateQuote rule and by the CHECK constraint of the quotes table: no
\* form submission is rejected because of its equipment type.
C28_FormEquipmentTypesAccepted ==
  \A r \in DOMAIN cqPc :
    (Validated(r) /\ cqReq[r].equipment_type \in equipmentTypes) =>
      /\ cqReq[r].equipment_type \in checkEquipmentTypes
      /\ \A i \in 1..Len(cqResponses[r]) :
           cqResponses[r][i].error = "Validation error" =>
             \A k \in 1..Len(cqResponses[r][i].errors) :
               cqResponses[r][i].errors[k].path # "equipment_type"


----------------------------------------------------------------------------
(* Home (app/page.tsx): handleSubmit and handleQuoteClick *)

\* null
Null == <<>>

\* The most quoteAPI calls the handlers start.
MaxApiCalls == 3

\* The quotes the history lists.
HistoryIds == {1, 2}

\* The id the server gives to the quote created for the n-th call.
CreatedId(n) == 100 + n

\* How a quoteAPI call settles: with the data of the response, or with an
\* error of axios, which carries a response when the server answered.
ApiFailures ==
  {[ok |-> FALSE, response |-> TRUE, errMessage |-> "Request failed with status code 400",
    dataMessage |-> "Please check your input data",
    errors |-> <<[param |-> "total_weight", msg |-> "Total weight is required"]>>],
   [ok |-> FALSE, response |-> TRUE, errMessage |-> "Request failed with status code 404",
    dataMessage |-> "Quote not found", errors |-> <<>>],
   [ok |-> FALSE, response |-> TRUE, errMessage |-> "Request failed with status code 502",
    dataMessage |-> Absent, errors |-> <<>>],
   [ok |-> FALSE, response |-> FALSE, errMessage |-> "Network Error",
    dataMessage |-> Absent, errors |-> <<>>]}

CreateAnswer(n) ==
  [ok |-> TRUE, data |-> [id |-> CreatedId(n), geocoding_accuracy |-> "exact"]]

GetByIdAnswer(quoteId) ==
  [ok |-> TRUE, data |-> [id |-> quoteId, geocoding_accuracy |-> "approximate"]]

Pending == [ok |-> FALSE, pending |-> TRUE]

RECURSIVE JoinErrors(_)
JoinErrors(errors) ==
  IF errors = <<>> THEN <<>>
  ELSE <<errors[1].param, ": ", errors[1].msg>>
       \o (IF Len(errors) > 1 THEN <<", ">> ELSE <<>>)
       \o JoinErrors(Tail(errors))

\* Lines 58-77: the message handleSubmit shows for an error.
SubmitErrorMessage(err) ==
  IF err.response
    THEN IF err.errors # <<>> THEN <<"Validation error: ">> \o JoinErrors(err.errors)
         ELSE IF err.dataMessage # Absent THEN <<err.dataMessage>>
         ELSE <<"Failed to calculate quote. Please try again.">>
    ELSE <<err.errMessage>>

\* Lines 97-101: the message handleQuoteClick shows; an error of axios is an Error.
QuoteClickErrorMessage(err) == <<err.errMessage>>

\* Lines 48-54, behind the submit button of QuoteForm, which is disabled
\* while isLoading (QuoteForm.tsx line 527).
HandleSubmitStart ==
  /\ ~isLoading
  /\ Len(apiCalls) < MaxApiCalls
  /\ isLoading' = TRUE
  /\ error' = Null
  /\ currentQuote' = Null
  /\ apiCalls' = Append(apiCalls, [handler |-> "handleSubmit", quoteId |-> 0, outcome |-> Pending])
  /\ UNCHANGED <<activeTab, isFromHistory>>
  /\ UNCHANGED <<geoVars, distVars, priceVars, createVars, listVars, mapVars>>

\* Lines 54-80: quoteAPI.create settles.
HandleSubmitSettled(n) ==
  /\ apiCalls[n].handler = "handleSubmit"
  /\ apiCalls[n].outcome = Pending
  /\ \E answer \in {CreateAnswer(n)} \cup ApiFailures :
       /\ apiCalls' = [apiCalls EXCEPT ![n].outcome = answer]
       /\ IF answer.ok
            THEN /\ currentQuote' = answer.data
                 /\ isFromHistory' = FALSE
                 /\ activeTab' = "quote"
                 /\ UNCHANGED error
            ELSE /\ error' = SubmitErrorMessage(answer)
                 /\ UNCHANGED <<currentQuote, isFromHistory, activeTab>>
  /\ isLoading' = FALSE
  /\ UNCHANGED <<geoVars, distVars, priceVars, createVars, listVars, mapVars>>

\* Lines 83-88, behind a row of QuoteHistory (QuoteHistory.tsx line 131), which
\* is rendered on the history tab and is not disabled while isLoading.
HandleQuoteClickStart(quoteId) ==
  /\ activeTab = "history"
  /\ Len(apiCalls) < MaxApiCalls
  /\ isLoading' = TRUE
  /\ error' = Null
  /\ apiCalls' =
       Append(apiCalls, [handler |-> "handleQuoteClick", quoteId |-> quoteId, outcome |-> Pending])
  /\ UNCHANGED <<currentQuote, activeTab, isFromHistory>>
  /\ UNCHANGED <<geoVars, distVars, priceVars, createVars, listVars, mapVars>>

\* Lines 88-104: quoteAPI.getById settles.
HandleQuoteClickSettled(n) ==
  /\ apiCalls[n].handler = "handleQuoteClick"
  /\ apiCalls[n].outcome = Pending
  /\ \E answer \in {GetByIdAnswer(apiCalls[n].quoteId)} \cup ApiFailures :
       /\ apiCalls' = [apiCalls EXCEPT ![n].outcome = answer]
       /\ IF answer.ok
            THEN /\ currentQuote' = [answer.data EXCEPT !.geocoding_accuracy = Absent]
                 /\ isFromHistory' = TRUE
                 /\ activeTab' = "quote"
                 /\ UNCHANGED error
            ELSE /\ error' = QuoteClickErrorMessage(answer)
                 /\ UNCHANGED <<currentQuote, isFromHistory, activeTab>>
  /\ isLoading' = FALSE
  /\ UNCHANGED <<geoVars, distVars, priceVars, createVars, listVars, mapVars>>

\* Lines 171-190: the tab buttons.
SetActiveTab(tab) ==
  /\ activeTab # tab
  /\ activeTab' = tab
  /\ UNCHANGED <<isLoading, error, currentQuote, isFromHistory, apiCalls>>
  /\ UNCHANGED <<geoVars, distVars, priceVars, createVars, listVars, mapVars>>

\* Lines 200-211: the Back to History button of a quote opened from the history.
BackToHistory ==
  /\ activeTab = "quote"
  /\ currentQuote # Null
  /\ isFromHistory
  /\ currentQuote' = Null
  /\ activeTab' = "history"
  /\ isFromHistory' = FALSE
  /\ UNCHANGED <<isLoading, error, apiCalls>>
  /\ UNCHANGED <<geoVars, distVars, priceVars, createVars, listVars, mapVars>>

HomeInit ==
  /\ HomeIdle
  /\ GeoIdle
  /\ DistIdle
  /\ PriceIdle
  /\ CreateIdle
  /\ ListIdle
  /\ MapIdle

HomeNext ==
  \/ HandleSubmitStart
  \/ \E n \in 1..Len(apiCalls) : HandleSubmitSettled(n)
  \/ \E quoteId \in HistoryIds : HandleQuoteClickStart(quoteId)
  \/ \E n \in 1..Len(apiCalls) : HandleQuoteClickSettled(n)
  \/ \E tab \in {"quote", "history"} : SetActiveTab(tab)
  \/ BackToHistory

SpecHome == HomeInit /\ [][HomeNext]_vars

(* Claims about the Home page (checked under SpecHome) *)

InFlight == {n \in 1..Len(apiCalls) : apiCalls[n].outcome = Pending}

\* What the page shows for the outcome of a call.
ShownQuote(call) ==
  IF call.handler = "handleSubmit" THEN call.outcome.data
  ELSE [call.outcome.data EXCEPT !.geocoding_accuracy = Absent]

ShownError(call) ==
  IF call.handler = "handleSubmit" THEN SubmitErrorMessage(call.outcome)
  ELSE QuoteClickErrorMessage(call.outcome)

\* C29: under any interleaving of handleSubmit and handleQuoteClick,
\* isLoading is false only when no request of either handler is in flight,
\* and once all requests have settled the quote or the error on display is
\* that of the request started last.
C29_LoadingAndDisplayFollowRequests ==
  /\ ~isLoading => InFlight = {}
  /\ (apiCalls # <<>> /\ InFlight = {}) =>
       LET last == apiCalls[Len(apiCalls)]
       IN IF last.outcome.ok
            THEN currentQuote \in {ShownQuote(last), Null} /\ error = Null
            ELSE error = ShownError(last)


----------------------------------------------------------------------------
(* RouteMap (components/RouteMap.tsx): the effect, fetchRoute and the cleanup *)

\* The props origin and destination; coordinates in tenths of a degree.
MapPairs ==
  {[origin |-> [latitude |-> Num(437), longitude |-> Num(-794)],
    destination |-> [latitude |-> Num(493), longitude |-> Num(-1231)]],
   [origin |-> [latitude |-> Num(455), longitude |-> Num(-736)],
    destination |-> [latitude |-> Num(437), longitude |-> Num(-794)]],
   [origin |-> [latitude |-> NaN, longitude |-> Num(-794)],
    destination |-> [latitude |-> Num(493), longitude |-> Num(-1231)]]}

\* The most runs of the effect.
MaxEffectRuns == 3

\* Lines 39-52
InvalidCoordinates(pair) ==
  LET outside(x, bound) == x.nan \/ x.v < 0 - bound \/ x.v > bound
  IN \/ outside(pair.origin.latitude, 900)
     \/ outside(pair.origin.longitude, 1800)
     \/ outside(pair.destination.latitude, 900)
     \/ outside(pair.destination.longitude, 1800)

Unmounted == <<>>

NoLayer == <<>>

\* The component is on the page: mapContainerRef.current is its div.
Mounted == mapProps # Unmounted

\* map.removeLayer(layer)
RemoveLayer(layers, layer) == SelectSeq(layers, LAMBDA l : l # layer)

\* Lines 303-311: the cleanup of the run that created map number m.
\* routeLineRef.current is taken off that map; mapRef.current is removed
\* and set to null.
CleanedUp(all, m, line, current) ==
  LET offLine == IF line # NoLayer
                   THEN [all EXCEPT ![m].layers = RemoveLayer(@, line)]
                   ELSE all
  IN IF current # 0 THEN [offLine EXCEPT ![current].removed = TRUE] ELSE offLine

\* Lines 30-312: a run of the effect, on mount and when origin or destination
\* change.  The cleanup of the previous run comes first, when that run
\* returned one; then the map is created and fetchRoute is called.
EffectRun(pair) ==
  /\ Len(fetchRoutes) < MaxEffectRuns
  /\ IF Mounted THEN mapProps.pair # pair ELSE TRUE
  /\ ~Mounted => fetchRoutes = <<>>
  /\ LET previous == IF Mounted THEN mapProps.cleanup ELSE 0
         cleaned == IF previous # 0
                      THEN CleanedUp(leafletMaps, previous, routeLineRef, mapRef)
                      ELSE leafletMaps
         ref == IF previous # 0 THEN 0 ELSE mapRef
         run == Len(fetchRoutes) + 1
     IN IF ref # 0 \/ InvalidCoordinates(pair)
          THEN /\ leafletMaps' = cleaned
               /\ mapRef' = ref
               /\ mapProps' = [pair |-> pair, cleanup |-> 0]
               /\ fetchRoutes' = Append(fetchRoutes, [pair |-> pair, state |-> "none"])
               /\ UNCHANGED isLoadingRoute
          ELSE /\ leafletMaps' =
                    Append(cleaned, [run |-> run, pair |-> pair, removed |-> FALSE, layers |-> <<>>])
               /\ mapRef' = Len(cleaned) + 1
               /\ mapProps' = [pair |-> pair, cleanup |-> Len(cleaned) + 1]
               /\ fetchRoutes' = Append(fetchRoutes, [pair |-> pair, state |-> "pending"])
               /\ isLoadingRoute' = TRUE
  /\ UNCHANGED routeLineRef
  /\ UNCHANGED <<geoVars, distVars, priceVars, createVars, listVars, homeVars>>

\* The component leaves the page: the cleanup of the last run.
Unmount ==
  /\ Mounted
  /\ leafletMaps' = IF mapProps.cleanup # 0
                      THEN CleanedUp(leafletMaps, mapProps.cleanup, routeLineRef, mapRef)
                      ELSE leafletMaps
  /\ mapRef' = IF mapProps.cleanup # 0 THEN 0 ELSE mapRef
  /\ mapProps' = Unmounted
  /\ UNCHANGED <<routeLineRef, fetchRoutes, isLoadingRoute>>
  /\ UNCHANGED <<geoVars, distVars, priceVars, createVars, listVars, homeVars>>

\* What the routing provider answers to fetchRoute.
FetchAnswers == {"routes", "no_routes", "error"}

\* Lines 226-231 and 279-286: the polyline of a run, of the route geometry
\* or straight between the run's own coordinates.
RouteLine(kind, run) == [kind |-> kind, run |-> run, pair |-> fetchRoutes[run].pair]

\* Lines 204 and 245: mapRef.current && mapContainerRef.current
MapStillValid(ref, mounted) == ref # 0 /\ mounted

\* Lines 192-251: the request of a run's fetchRoute settles.
FetchRouteSettled(run, answer) ==
  /\ fetchRoutes[run].state = "pending"
  /\ fetchRoutes' = [fetchRoutes EXCEPT ![run].state = "done"]
  /\ IF ~MapStillValid(mapRef, Mounted)
       THEN UNCHANGED <<leafletMaps, routeLineRef>>
       ELSE LET line == RouteLine(IF answer = "routes" THEN "route" ELSE "straight", run)
                kept == IF answer = "routes" /\ routeLineRef # NoLayer
                          THEN RemoveLayer(leafletMaps[mapRef].layers, routeLineRef)
                          ELSE leafletMaps[mapRef].layers
            IN /\ leafletMaps' = [leafletMaps EXCEPT ![mapRef].layers = Append(kept, line)]
               /\ routeLineRef' = line
  /\ isLoadingRoute' = IF Mounted THEN FALSE ELSE isLoadingRoute
  /\ UNCHANGED <<mapProps, mapRef>>
  /\ UNCHANGED <<geoVars, distVars, priceVars, createVars, listVars, homeVars>>

MapInit ==
  /\ MapIdle
  /\ GeoIdle
  /\ DistIdle
  /\ PriceIdle
  /\ CreateIdle
  /\ ListIdle
  /\ HomeIdle

MapNext ==
  \/ \E pair \in MapPairs : EffectRun(pair)
  \/ Unmount
  \/ \E run \in 1..Len(fetchRoutes), answer \in FetchAnswers : FetchRouteSettled(run, answer)

SpecMap == MapInit /\ [][MapNext]_vars

(* Claims about RouteMap (checked under SpecMap) *)

\* C30: a route response fetched for one origin/destination pair is never
\* drawn on a map created for a later pair: once the cleanup of an effect
\* run has removed its map, the pending fetchRoute of that run adds no route
\* line and no straight line to any map.
C30_LinesOnlyOnOwnMap ==
  \A m \in 1..Len(leafletMaps) :
    \A k \in 1..Len(leafletMaps[m].layers) :
      /\ leafletMaps[m].layers[k].pair = leafletMaps[m].pair
      /\ leafletMaps[m].layers[k].run = leafletMaps[m].run

====
